---------------------------- MODULE Spec2Model ----------------------------
(***************************************************************************)
(* A model of the time-tracker-plus plugin: the entry tree of a Tracker    *)
(* and its operations (tracker.ts), the fenced-block storage of trackers   *)
(* inside documents (saveTracker, loadAllTrackers), and the store-wide     *)
(* auto-stop scan (stopAllRunnersInFile, stopAllOtherRunningTimers).       *)
(*                                                                         *)
(* Values.  A timestamp is <<"null", 0>> (null) or <<"iso", t>> (the ISO   *)
(* string of instant t).  A name is <<prefix, n>>: <<"", 0>> is the empty  *)
(* string, <<"Work", 0>> a name the user typed, <<"Part", 2>> the          *)
(* synthesized "Part 2".  An Entry in memory is a record with the five     *)
(* fields of the interface; a field the object lacks reads as undefined.   *)
(* subEntries is [t |-> "undefined" | "array", a |-> the array].           *)
(* An entry object is identified by its path (the indices from             *)
(* tracker.entries down to it): no operation aliases two entries.          *)
(***************************************************************************)
EXTENDS Integers, Sequences, FiniteSets, TLC

VARIABLES
    tracker,    \* Spec: the Tracker a view holds in memory
    now,        \* the wall clock (moment())
    last,       \* the last operation applied: its name, arguments, the state before, its result
    loaded,     \* whether `tracker` went through loadTracker (updateLegacyInfo) or is a bare JSON.parse
    docs,       \* the document store: the text of each file, as lines
    views,      \* the rendered tracker blocks: file, section, the Tracker in memory
    tasks       \* the asynchronous handlers in flight and where each one stands

treeVars == <<tracker, now, last, loaded>>
storeVars == <<docs, views, tasks>>
vars == <<tracker, now, last, loaded, docs, views, tasks>>

-----------------------------------------------------------------------------
(* Bounds *)

\* the largest number of entries (of all depths) a tracker of Spec grows to
MaxNodes == 5
\* the last instant of the clock: every operation that reads the clock
\* (moment()) is followed by a later instant
MaxTime == 4
\* SpecQuery: the largest number of entries (of all depths) of a tracker
QNodes == 4

-----------------------------------------------------------------------------
(* Values of the Entry interface *)

Null == <<"null", 0>>
Iso(t) == <<"iso", t>>
\* a legacy timestamp: the number n of Unix seconds
Unix(n) == <<"unix", n>>
\* JavaScript truthiness of a startTime / endTime: null and 0 are falsy
TruthyTime(v) == v[1] = "iso" \/ (v[1] = "unix" /\ v[2] # 0)
\* !isNaN(+v): the value is a number (an ISO string is not)
IsNumeric(v) == v[1] = "unix"

SubNull == [t |-> "null", a |-> <<>>]
SubUndefined == [t |-> "undefined", a |-> <<>>]
Arr(s) == [t |-> "array", a |-> s]
\* JavaScript truthiness of entry.subEntries: any array, the empty one too
TruthySub(s) == s.t = "array"

EmptyName == <<"", 0>>
Names == {EmptyName, <<"Work", 0>>}

Entry(name, startTime, endTime) ==
    [name |-> name, startTime |-> startTime, endTime |-> endTime,
     subEntries |-> SubUndefined, collapsed |-> "undefined"]

EmptyTracker == [entries |-> <<>>]

-----------------------------------------------------------------------------
(* Paths: the identity of entry objects *)

RECURSIVE CountNodes(_)
CountNodes(entries) ==
    IF entries = <<>> THEN 0
    ELSE 1 + CountNodes(Head(entries).subEntries.a) + CountNodes(Tail(entries))

RECURSIVE PathsOf(_)
PathsOf(entries) ==
    UNION { {<<i>>} \cup { <<i>> \o p : p \in PathsOf(entries[i].subEntries.a) }
            : i \in DOMAIN entries }

RECURSIVE EntryAt(_, _)
EntryAt(entries, path) ==
    IF Len(path) = 1 THEN entries[path[1]]
    ELSE EntryAt(entries[path[1]].subEntries.a, Tail(path))

RECURSIVE ReplaceAt(_, _, _)
ReplaceAt(entries, path, e) ==
    IF Len(path) = 1 THEN [entries EXCEPT ![path[1]] = e]
    ELSE [entries EXCEPT ![path[1]].subEntries.a =
              ReplaceAt(entries[path[1]].subEntries.a, Tail(path), e)]

Parent(path) == SubSeq(path, 1, Len(path) - 1)

-----------------------------------------------------------------------------
(* Duration Functions *)

RECURSIVE getDuration(_, _)
\* the number NaN: what diff gives against moment(null), which is no date;
\* a sum with NaN is NaN
NaN == -1000000
Plus(a, b) == IF a = NaN \/ b = NaN THEN NaN ELSE a + b

getTotalDuration(entries, t) ==
    LET Sum[i \in 0..Len(entries)] ==
            IF i = 0 THEN 0 ELSE Plus(Sum[i - 1], getDuration(entries[i], t))
    IN Sum[Len(entries)]

\* a getDuration that lets a container's own times count
getDurationOwnTimes(entry, t) ==
    IF TruthySub(entry.subEntries) /\ ~TruthyTime(entry.startTime)
    THEN getTotalDuration(entry.subEntries.a, t)
    ELSE LET endTime == IF TruthyTime(entry.endTime) THEN entry.endTime[2] ELSE t
         IN endTime - entry.startTime[2]

getDuration(entry, t) ==
    IF TruthySub(entry.subEntries)
    THEN getTotalDuration(entry.subEntries.a, t)
    ELSE LET endTime == IF TruthyTime(entry.endTime) THEN entry.endTime[2] ELSE t
         IN IF entry.startTime = Null THEN NaN ELSE endTime - entry.startTime[2]

\* getRunningEntry returns the entry object: here its path, <<>> for null
RECURSIVE getRunningFrom(_, _)
getRunningFrom(entries, i) ==
    IF i > Len(entries) THEN <<>>
    ELSE LET entry == entries[i] IN
         IF TruthySub(entry.subEntries)
         THEN LET running == getRunningFrom(entry.subEntries.a, 1) IN
              IF running # <<>> THEN <<i>> \o running
              ELSE getRunningFrom(entries, i + 1)
         ELSE IF ~TruthyTime(entry.endTime) THEN <<i>>
              ELSE getRunningFrom(entries, i + 1)

getRunningEntry(entries) == getRunningFrom(entries, 1)

isRunning(t) == getRunningEntry(t.entries) # <<>>

hasRunningEntry(entry) ==
    IF TruthySub(entry.subEntries)
    THEN getRunningEntry(entry.subEntries.a) # <<>>
    ELSE ~TruthyTime(entry.endTime)

-----------------------------------------------------------------------------
(* Entry Management Functions *)

\* a startSubEntry that numbers the new part by the child count before the
\* leaf was split
startSubEntryCountsFirst(entry, name, t) ==
    LET split == IF ~TruthySub(entry.subEntries)
                 THEN [entry EXCEPT
                          !.subEntries = Arr(<<[entry EXCEPT !.name = <<"Part", 1>>]>>),
                          !.startTime = Null,
                          !.endTime = Null]
                 ELSE entry
        nm == IF name = EmptyName
              THEN <<"Part", Len(entry.subEntries.a) + 1>>
              ELSE name
    IN [split EXCEPT !.subEntries =
            Arr(Append(split.subEntries.a, Entry(nm, Iso(t), Null)))]

startSubEntry(entry, name, t) ==
    LET split == IF ~TruthySub(entry.subEntries)
                 THEN [entry EXCEPT
                          !.subEntries = Arr(<<[entry EXCEPT !.name = <<"Part", 1>>]>>),
                          !.startTime = Null,
                          !.endTime = Null]
                 ELSE entry
        nm == IF name = EmptyName
              THEN <<"Part", Len(split.subEntries.a) + 1>>
              ELSE name
    IN [split EXCEPT !.subEntries =
            Arr(Append(split.subEntries.a, Entry(nm, Iso(t), Null)))]

\* a startNewEntry that numbers the segment by the count before the append
startNewEntryNumbersFromZero(t, name, time) ==
    LET nm == IF name = EmptyName THEN <<"Segment", Len(t.entries)>> ELSE name
    IN [t EXCEPT !.entries = Append(t.entries, Entry(nm, Iso(time), Null))]

startNewEntry(t, name, time) ==
    LET nm == IF name = EmptyName THEN <<"Segment", Len(t.entries) + 1>> ELSE name
    IN [t EXCEPT !.entries = Append(t.entries, Entry(nm, Iso(time), Null))]

\* a stop that ends the entry it is given, container or not
endRunningEntryOwnTime(entry, t) ==
    IF ~TruthyTime(entry.endTime) THEN [entry EXCEPT !.endTime = Iso(t)] ELSE entry

endRunningEntryInSegment(entry, t) ==
    IF TruthySub(entry.subEntries)
    THEN LET running == getRunningEntry(entry.subEntries.a) IN
         IF running # <<>>
         THEN [entry EXCEPT !.subEntries.a =
                  ReplaceAt(entry.subEntries.a, running,
                            [EntryAt(entry.subEntries.a, running) EXCEPT !.endTime = Iso(t)])]
         ELSE entry
    ELSE IF ~TruthyTime(entry.endTime)
         THEN [entry EXCEPT !.endTime = Iso(t)]
         ELSE entry

RemoveIndex(s, i) == SubSeq(s, 1, i - 1) \o SubSeq(s, i + 1, Len(s))

\* a flatten that drops subEntries and forgets to adopt the child's times
FlattenKeepsOwnTimes(entry, sub) ==
    IF Len(sub) = 1
    THEN [entry EXCEPT !.subEntries = SubUndefined]
    ELSE [entry EXCEPT !.subEntries = Arr(sub)]

\* the flattening of removeEntry (lines 364-369): the parent adopts the times
\* of its single remaining child and drops subEntries
Flatten(entry, sub) ==
    IF Len(sub) = 1
    THEN [entry EXCEPT !.startTime = sub[1].startTime,
                       !.endTime = sub[1].endTime,
                       !.subEntries = SubUndefined]
    ELSE [entry EXCEPT !.subEntries = Arr(sub)]

\* removeEntry(entries, toRemove): `prefix` is the path of the entry that owns
\* `entries`, so prefix \o <<i>> is the identity of entries[i].  The result is
\* [found |-> the returned boolean, entries |-> the array after the call].
RECURSIVE removeEntry(_, _, _)
RECURSIVE removeLoop(_, _, _, _)
removeLoop(entries, prefix, toRemove, i) ==
    IF i > Len(entries) THEN [found |-> FALSE, entries |-> entries]
    ELSE LET entry == entries[i] IN
         IF TruthySub(entry.subEntries)
         THEN LET r == removeEntry(entry.subEntries.a, prefix \o <<i>>, toRemove) IN
              IF r.found
              THEN [found |-> TRUE,
                    entries |-> [entries EXCEPT ![i] = Flatten(entry, r.entries)]]
              ELSE removeLoop(entries, prefix, toRemove, i + 1)
         ELSE removeLoop(entries, prefix, toRemove, i + 1)

removeEntry(entries, prefix, toRemove) ==
    IF \E i \in DOMAIN entries : prefix \o <<i>> = toRemove
    THEN [found |-> TRUE, entries |-> RemoveIndex(entries, toRemove[Len(toRemove)])]
    ELSE removeLoop(entries, prefix, toRemove, 1)

-----------------------------------------------------------------------------
(* Save and Load Functions: the legacy migration *)

\* moment.unix(+v).toISOString(): instants are counted in milliseconds
UnixToIso(v) == Iso(v[2] * 1000)

RECURSIVE updateLegacyInfo(_)
updateLegacyInfo(entries) ==
    [i \in DOMAIN entries |->
        LET entry == entries[i]
            startTime == IF TruthyTime(entry.startTime) /\ IsNumeric(entry.startTime)
                         THEN UnixToIso(entry.startTime) ELSE entry.startTime
            endTime == IF TruthyTime(entry.endTime) /\ IsNumeric(entry.endTime)
                       THEN UnixToIso(entry.endTime) ELSE entry.endTime
            subEntries == IF entry.subEntries.t \in {"null", "undefined"}
                             \/ Len(entry.subEntries.a) = 0
                          THEN SubUndefined
                          ELSE Arr(updateLegacyInfo(entry.subEntries.a))
        IN [entry EXCEPT !.startTime = startTime,
                         !.endTime = endTime,
                         !.subEntries = subEntries]]

-----------------------------------------------------------------------------
(* Documents.  A document's text is the sequence of its lines, the result  *)
(* of content.split("\n"): a string always splits into at least one line.  *)
(* Lines are kept by what the code can tell about them:                    *)
(*   Text(s)    a line of prose (no backticks)                             *)
(*   Blank      the empty line                                             *)
(*   Open(ws)   "```time-tracker-plus", followed by blanks when ws         *)
(*   Close(ws)  "```", followed by blanks when ws                          *)
(*   Json(v)    a line holding the complete JSON text v                    *)
(* Line numbers are 0-based as in the source; content[i + 1] is line i.    *)

Text(str) == [k |-> "text", s |-> str]
Blank == [k |-> "blank"]
Open(ws) == [k |-> "open", ws |-> ws]
Close(ws) == [k |-> "close", ws |-> ws]
Json(v) == [k |-> "json", v |-> v]

\* lines.join("\n") read back as lines: joining no line at all gives "",
\* which is one empty line
Join(lines) == IF lines = <<>> THEN <<Blank>> ELSE lines

\* lines.filter((_, i) => P(i)) for P(i) == lo <= i <= hi
FilterLines(lines, lo, hi) ==
    LET idx == { i \in 0..(Len(lines) - 1) : lo <= i /\ i <= hi }
        n == Cardinality(idx)
        first == IF idx = {} THEN 0 ELSE CHOOSE i \in idx : \A j \in idx : i <= j
    IN [j \in 1..n |-> lines[first + j]]

-----------------------------------------------------------------------------
(* JSON.stringify and JSON.parse.  A JSON text is kept as the value it     *)
(* spells: an object is a record holding exactly the keys written in the   *)
(* text.  JSON.stringify leaves out a key whose value is undefined;        *)
(* reading a key the parsed object lacks gives undefined.                  *)

RECURSIVE StringifyEntries(_)
StringifyEntries(entries) ==
    [i \in DOMAIN entries |->
        LET e == entries[i] IN
        [name |-> e.name, startTime |-> e.startTime, endTime |-> e.endTime]
        @@ (IF e.subEntries.t = "array"
            THEN "subEntries" :> Arr(StringifyEntries(e.subEntries.a))
            ELSE IF e.subEntries.t = "null" THEN "subEntries" :> SubNull ELSE <<>>)
        @@ (IF e.collapsed = "true" THEN "collapsed" :> TRUE ELSE <<>>)]

\* a stringify that writes only the three scalar fields of top-level entries
StringifyScalars(t) ==
    [entries |-> [i \in DOMAIN t.entries |->
        [name |-> t.entries[i].name, startTime |-> t.entries[i].startTime,
         endTime |-> t.entries[i].endTime]]]

Stringify(t) ==
    [entries |-> StringifyEntries(t.entries)]
    @@ (IF "targetTime" \in DOMAIN t THEN "targetTime" :> t.targetTime ELSE <<>>)

RECURSIVE ParseEntries(_)
ParseEntries(js) ==
    [i \in DOMAIN js |->
        LET j == js[i] IN
        [name |-> j.name, startTime |-> j.startTime, endTime |-> j.endTime,
         subEntries |-> IF "subEntries" \in DOMAIN j
                        THEN IF j.subEntries.t = "array"
                             THEN Arr(ParseEntries(j.subEntries.a)) ELSE SubNull
                        ELSE SubUndefined,
         collapsed |-> IF "collapsed" \in DOMAIN j THEN "true" ELSE "undefined"]]

\* a parse that reads the entries only
ParseEntriesOnly(v) == [entries |-> ParseEntries(v.entries)]

Parse(v) ==
    [entries |-> ParseEntries(v.entries)]
    @@ (IF "targetTime" \in DOMAIN v THEN "targetTime" :> v.targetTime ELSE <<>>)

\* a JSON text that does not spell a Tracker: null, a number, an array, an
\* object without entries, {"entries": 5}, {"entries": [null]}
NotATracker(kind) == [json |-> kind]
NotTrackerKinds ==
    {"null", "number", "array", "object", "entriesNumber", "entriesOfNull"}

\* whether the parsed value has an entries list of entry objects; if not,
\* reading ret.entries or iterating it throws a TypeError
IsTrackerJson(v) == "entries" \in DOMAIN v

\* whether JSON.parse accepts the text made of these lines: one JSON text,
\* around it only white space
JsonParses(lines) ==
    /\ Cardinality({ i \in DOMAIN lines : lines[i].k = "json" }) = 1
    /\ \A i \in DOMAIN lines : lines[i].k \in {"json", "blank"}

JsonOf(lines) == lines[CHOOSE i \in DOMAIN lines : lines[i].k = "json"].v

-----------------------------------------------------------------------------
(* Save and Load Functions *)

\* the try block of loadTracker: ret = JSON.parse(json);
\* updateLegacyInfo(ret.entries); either of them may throw
tryLoad(text) ==
    IF ~JsonParses(text) THEN [threw |-> "SyntaxError"]
    ELSE IF ~IsTrackerJson(JsonOf(text)) THEN [threw |-> "TypeError"]
    ELSE LET ret == Parse(JsonOf(text)) IN
         [threw |-> "no", ret |-> [ret EXCEPT !.entries = updateLegacyInfo(@)]]

\* a loadTracker without the catch: the exception reaches the caller
loadTrackerUncaught(text) ==
    IF text # <<>>
    THEN IF tryLoad(text).threw = "no" THEN tryLoad(text).ret
         ELSE [thrown |-> tryLoad(text).threw]
    ELSE EmptyTracker

\* loadTracker(json); `text` holds the lines of json
loadTracker(text) ==
    IF text # <<>> /\ tryLoad(text).threw = "no"
    THEN tryLoad(text).ret
    ELSE EmptyTracker

\* line.trimEnd() == "```time-tracker-plus" and line.trimEnd() == "```"
\* a comparison of the untrimmed line: line == "```time-tracker-plus"
IsOpenFenceUntrimmed(line) == line.k = "open" /\ ~line.ws

IsOpenFence(line) == line.k = "open"
IsCloseFence(line) == line.k = "close"

NoCurr == [on |-> FALSE, lineStart |-> 0, text |-> <<>>]

RECURSIVE locateFrom(_, _, _, _)
locateFrom(content, i, curr, trackers) ==
    IF i >= Len(content) THEN trackers
    ELSE LET line == content[i + 1] IN
         IF IsOpenFence(line)
         THEN locateFrom(content, i + 1,
                         [on |-> TRUE, lineStart |-> i + 1, text |-> <<>>], trackers)
         ELSE IF curr.on
              THEN IF IsCloseFence(line)
                   THEN locateFrom(content, i + 1, NoCurr,
                            Append(trackers,
                                [section |-> [lineStart |-> curr.lineStart,
                                              lineEnd |-> i - 1],
                                 tracker |-> loadTracker(curr.text)]))
                   ELSE locateFrom(content, i + 1,
                                   [curr EXCEPT !.text = Append(@, line)], trackers)
              ELSE locateFrom(content, i + 1, curr, trackers)

loadAllTrackers(content) == locateFrom(content, 0, NoCurr, <<>>)

\* a splice that keeps only the lines outside lineStart..lineEnd
saveTrackerExclusive(t, content, section) ==
    Join(FilterLines(content, 0, section.lineStart - 1))
        \o <<Json(Stringify(t))>>
        \o Join(FilterLines(content, section.lineEnd + 1, Len(content)))

\* saveTracker's new content: `${prev}\n${JSON.stringify(tracker)}\n${next}`
saveTracker(t, content, section) ==
    LET lines == content
        prev == Join(FilterLines(lines, 0, section.lineStart))
        next == Join(FilterLines(lines, section.lineEnd, Len(lines)))
    IN prev \o <<Json(Stringify(t))>> \o next

\* the section the host hands the code block processor (i.getSectionInfo(e)):
\* from the line of the opening fence to the line of the closing fence, that
\* is one line more on each side than the payload range loadAllTrackers
\* reports for the same block
HostSection(located) ==
    [lineStart |-> located.lineStart - 1, lineEnd |-> located.lineEnd + 1]

-----------------------------------------------------------------------------
(* Auto-stop: stopAllRunnersInFile and stopAllOtherRunningTimers.          *)
(* The scan does not go line by line: it matches the regular expression    *)
(*     /```time-tracker-plus\n([\s\S]*?)\n```/g                            *)
(* against the whole text.  Over lines, a match starts in a line that ends *)
(* with the opening tag (nothing after it, so not Open(TRUE)); its group   *)
(* is the lines i+1..j for the least j >= i+1 such that line j+1 starts    *)
(* with three backticks; the match ends after those backticks, and the     *)
(* search for the next match goes on from there, inside line j+1.          *)

EndsWithTag(line) == line = Open(FALSE)
StartsWithFence(line) == line.k \in {"open", "close"}

\* the lines j that can end the group of a match starting in line i
GroupEnds(content, i) ==
    { j \in (i + 1)..(Len(content) - 2) : StartsWithFence(content[(j + 1) + 1]) }

\* the starts of the matches at or after line `from`
MatchStarts(content, from) ==
    { i \in from..(Len(content) - 1) :
        EndsWithTag(content[i + 1]) /\ GroupEnds(content, i) # {} }

Least(S) == CHOOSE x \in S : \A y \in S : x <= y

\* what String.prototype.replace writes for a replacement string: "$$" in the
\* replacement stands for one "$".  Of the texts of a serialized tracker only
\* an entry name holds it here: the name <<"$$", n>> is written as <<"$", n>>.
RECURSIVE SubstituteEntries(_)
SubstituteEntries(js) ==
    [i \in DOMAIN js |->
        LET j == js[i]
            named == [j EXCEPT !.name = IF @[1] = "$$" THEN <<"$", @[2]>> ELSE @]
        IN IF "subEntries" \in DOMAIN j /\ j.subEntries.t = "array"
           THEN [named EXCEPT !.subEntries = Arr(SubstituteEntries(@.a))]
           ELSE named]

GetSubstitution(updated) == [updated EXCEPT !.entries = SubstituteEntries(@)]

\* newContent.replace(match[0], "```time-tracker-plus\n" + updated + "\n```"):
\* the first place of newContent where the matched text stands is replaced
ReplaceFirst(newContent, group, updated) ==
    LET n == Len(group)
        places == { i \in 0..(Len(newContent) - n - 2) :
                      /\ EndsWithTag(newContent[i + 1])
                      /\ SubSeq(newContent, i + 2, i + 1 + n) = group
                      /\ StartsWithFence(newContent[i + n + 2]) }
    IN IF places = {} THEN newContent
       ELSE LET i == Least(places) IN
            SubSeq(newContent, 1, i + 1) \o <<Json(GetSubstitution(updated))>>
                \o SubSeq(newContent, i + n + 2, Len(newContent))

RECURSIVE scanMatches(_, _, _, _, _)
scanMatches(fileContent, newContent, modified, from, t) ==
    IF MatchStarts(fileContent, from) = {}
    THEN [modified |-> modified, content |-> newContent]
    ELSE LET i == Least(MatchStarts(fileContent, from))
             j == Least(GroupEnds(fileContent, i))
             group == SubSeq(fileContent, i + 2, j + 1)
             parsed == Parse(JsonOf(group))
             running == getRunningEntry(parsed.entries)
             stopped == [parsed EXCEPT !.entries =
                            ReplaceAt(@, running,
                                [EntryAt(parsed.entries, running) EXCEPT !.endTime = Iso(t)])]
         IN IF JsonParses(group) /\ IsTrackerJson(JsonOf(group))
               /\ isRunning(parsed) /\ running # <<>>
            THEN scanMatches(fileContent,
                             ReplaceFirst(newContent, group, Stringify(stopped)),
                             TRUE, j + 2, t)
            ELSE scanMatches(fileContent, newContent, modified, j + 2, t)

\* stopAllRunnersInFile: whether it writes the file, and what it writes
stopAllRunnersInFile(fileContent, t) ==
    scanMatches(fileContent, fileContent, FALSE, 0, t)

-----------------------------------------------------------------------------
(* Spec: the entry tree operations applied, in any order, to a Tracker that *)
(* starts empty                                                             *)

\* the record of an operation: at is the instant of the call, found a
\* returned boolean, ret a returned number, rpath a returned entry
Op(op, path, name, pre, found, ret, rpath) ==
    [op |-> op, path |-> path, name |-> name, pre |-> pre, at |-> now,
     found |-> found, ret |-> ret, rpath |-> rpath]

NoOp == [Op("none", <<>>, EmptyName, EmptyTracker, FALSE, 0, <<>>) EXCEPT !.at = 0]

Init ==
    /\ tracker = EmptyTracker
    /\ now = 0
    /\ last = NoOp
    /\ loaded = TRUE
    /\ docs = <<>> /\ views = <<>> /\ tasks = <<>>

StartNewEntry ==
    \E name \in Names :
        /\ now < MaxTime
        /\ CountNodes(tracker.entries) < MaxNodes
        /\ tracker' = startNewEntry(tracker, name, now)
        /\ last' = Op("startNewEntry", <<>>, name, tracker, FALSE, 0, <<>>)
        /\ now' = now + 1
        /\ UNCHANGED <<loaded, docs, views, tasks>>

StartSubEntry ==
    \E path \in PathsOf(tracker.entries), name \in Names :
        LET entry == EntryAt(tracker.entries, path) IN
        /\ now < MaxTime
        /\ CountNodes(tracker.entries)
              + (IF TruthySub(entry.subEntries) THEN 1 ELSE 2) <= MaxNodes
        /\ tracker' = [tracker EXCEPT !.entries =
                          ReplaceAt(@, path, startSubEntry(entry, name, now))]
        /\ last' = Op("startSubEntry", path, name, tracker, FALSE, 0, <<>>)
        /\ now' = now + 1
        /\ UNCHANGED <<loaded, docs, views, tasks>>

Stop ==
    \E path \in PathsOf(tracker.entries) :
        /\ now < MaxTime
        /\ tracker' = [tracker EXCEPT !.entries =
                          ReplaceAt(@, path,
                              endRunningEntryInSegment(EntryAt(tracker.entries, path), now))]
        /\ last' = Op("stop", path, EmptyName, tracker, FALSE, 0, <<>>)
        /\ now' = now + 1
        /\ UNCHANGED <<loaded, docs, views, tasks>>

RemoveEntry ==
    \E path \in PathsOf(tracker.entries) :
        LET r == removeEntry(tracker.entries, <<>>, path) IN
        /\ tracker' = [tracker EXCEPT !.entries = r.entries]
        /\ last' = Op("removeEntry", path, EmptyName, tracker, r.found, 0, <<>>)
        /\ UNCHANGED <<now, loaded, docs, views, tasks>>

Next ==
    \/ StartNewEntry
    \/ StartSubEntry
    \/ Stop
    \/ RemoveEntry

Spec == Init /\ [][Next]_vars

-----------------------------------------------------------------------------
(* The data model's vocabulary (spec section 3), used to state the claims  *)

\* a leaf: subEntries absent or empty; a container: at least one child
IsLeaf(e) == Len(e.subEntries.a) = 0
IsContainer(e) == Len(e.subEntries.a) > 0

RunningLeaves(entries) ==
    { p \in PathsOf(entries) :
        /\ IsLeaf(EntryAt(entries, p))
        /\ EntryAt(entries, p).endTime = Null }

-----------------------------------------------------------------------------
(* Claims checked under Spec *)

\* C1: in every state reachable from an empty Tracker by startNewEntry,
\* startSubEntry, stop and removeEntry calls, at most one leaf of the whole
\* entry tree has endTime == null.
C1_AtMostOneRunningLeaf ==
    Cardinality(RunningLeaves(tracker.entries)) <= 1

\* C7: once an operation has returned, every entry is a leaf (no subEntries,
\* non-null startTime) or a container with at least two children.
C7_LeafOrContainerOfTwo ==
    \A p \in PathsOf(tracker.entries) :
        LET e == EntryAt(tracker.entries, p) IN
        \/ ~TruthySub(e.subEntries) /\ e.startTime # Null
        \/ TruthySub(e.subEntries) /\ Len(e.subEntries.a) >= 2

\* the last operation was a removeEntry of a child whose parent had exactly
\* two children, so that exactly one sibling remains
RemovedLeavingOneSibling ==
    /\ last.op = "removeEntry"
    /\ last.found
    /\ Len(last.path) >= 2
    /\ Len(EntryAt(last.pre.entries, Parent(last.path)).subEntries.a) = 2

\* C8 (flatten invariant): whenever removeEntry removes a child of a
\* container and exactly one sibling remains, the parent afterwards has no
\* subEntries and its own startTime and endTime are the surviving sibling's.
C8_FlattenAdoptsSiblingTimes ==
    RemovedLeavingOneSibling =>
        LET parentPath == Parent(last.path)
            removed == last.path[Len(last.path)]
            sibling == EntryAt(last.pre.entries, parentPath).subEntries.a[3 - removed]
            parent == EntryAt(tracker.entries, parentPath)
        IN /\ ~TruthySub(parent.subEntries)
           /\ parent.startTime = sibling.startTime
           /\ parent.endTime = sibling.endTime

\* C8's case: a flatten whose surviving sibling is a stopped leaf
C8_Witness ==
    /\ RemovedLeavingOneSibling
    /\ LET parentPath == Parent(last.path)
           removed == last.path[Len(last.path)]
           sibling == EntryAt(last.pre.entries, parentPath).subEntries.a[3 - removed]
       IN /\ sibling.startTime # Null
          /\ sibling.endTime # Null
          /\ EntryAt(tracker.entries, parentPath).endTime = sibling.endTime

-----------------------------------------------------------------------------
(* SpecQuery: the pure queries (isRunning, getRunningEntry, getDuration)   *)
(* applied to the trackers the program hands them.  A tracker comes out of *)
(* JSON.parse of a block's payload.  stopAllRunnersInFile queries that     *)
(* object as parsed (lines 756-758); the view's tracker first goes through *)
(* loadTracker's updateLegacyInfo (lines 41-43) and is then displayed.     *)

\* the leaves a payload holds: a stopped one, a running one, and two written
\* by the legacy format (numeric times, subEntries always present)
QLeaves ==
    { Entry(<<"a", 0>>, Iso(0), Iso(2)),
      Entry(<<"b", 0>>, Iso(1), Null),
      [Entry(<<"c", 0>>, Unix(1), Null) EXCEPT !.subEntries = Arr(<<>>)],
      [Entry(<<"d", 0>>, Unix(1), Unix(2)) EXCEPT !.subEntries = Arr(<<>>)] }

\* a container of the entries `sub`; its own times are null (as
\* startSubEntry leaves them) or set (a payload edited by hand)
ContainersOf(sub) ==
    { [Entry(<<"p", 0>>, own[1], own[2]) EXCEPT !.subEntries = Arr(sub)] :
        own \in {<<Null, Null>>, <<Iso(0), Iso(1)>>} }

\* QForests(n): the entry lists of n entries in all; QTrees(n): the entries
\* whose subtree has n entries
RECURSIVE QForests(_), QTrees(_)
QTrees(n) ==
    IF n = 1 THEN QLeaves
    ELSE UNION { ContainersOf(sub) : sub \in QForests(n - 1) }

QForests(n) ==
    IF n = 0 THEN {<<>>}
    ELSE UNION { { <<e>> \o f : e \in QTrees(k), f \in QForests(n - k) } : k \in 1..n }

QTrackers ==
    { [entries |-> es] : es \in UNION { QForests(n) : n \in 0..QNodes } }

InitQuery ==
    /\ tracker \in QTrackers
    /\ now = 2
    /\ last = NoOp
    /\ loaded = FALSE
    /\ docs = <<>> /\ views = <<>> /\ tasks = <<>>

\* loadTracker: ret = JSON.parse(json); updateLegacyInfo(ret.entries)
LoadTracker ==
    /\ ~loaded
    /\ tracker' = [tracker EXCEPT !.entries = updateLegacyInfo(@)]
    /\ loaded' = TRUE
    /\ last' = Op("loadTracker", <<>>, EmptyName, tracker, FALSE, 0, <<>>)
    /\ UNCHANGED <<now, docs, views, tasks>>

\* stopAllRunnersInFile: isRunning(tracker), getRunningEntry(tracker.entries)
\* on the object JSON.parse returned
ScanQueryRunning ==
    /\ ~loaded
    /\ last' = Op("getRunningEntry", <<>>, EmptyName, tracker,
                  isRunning(tracker), 0, getRunningEntry(tracker.entries))
    /\ UNCHANGED <<tracker, now, loaded, docs, views, tasks>>

\* displayTracker: let running = isRunning(tracker)
DisplayQueryRunning ==
    /\ loaded
    /\ last' = Op("getRunningEntry", <<>>, EmptyName, tracker,
                  isRunning(tracker), 0, getRunningEntry(tracker.entries))
    /\ UNCHANGED <<tracker, now, loaded, docs, views, tasks>>

\* addEditableTableRow and the refresh interval: getDuration(entry) of a row
DisplayQueryDuration ==
    \E path \in PathsOf(tracker.entries) :
        /\ loaded
        /\ last' = Op("getDuration", path, EmptyName, tracker, FALSE,
                      getDuration(EntryAt(tracker.entries, path), now), <<>>)
        /\ UNCHANGED <<tracker, now, loaded, docs, views, tasks>>

\* the clock moves on between two refreshes
QueryTick ==
    /\ now < MaxTime
    /\ now' = now + 1
    /\ UNCHANGED <<tracker, last, loaded, docs, views, tasks>>

NextQuery ==
    \/ LoadTracker
    \/ ScanQueryRunning
    \/ DisplayQueryRunning
    \/ DisplayQueryDuration
    \/ QueryTick

SpecQuery == InitQuery /\ [][NextQuery]_vars

-----------------------------------------------------------------------------
(* Claims checked under SpecQuery *)

\* the leaves of the subtree of e (e itself when it is a leaf), as paths
\* below e; <<>> is e itself
LeafPathsIn(e) ==
    IF IsLeaf(e) THEN {<<>>}
    ELSE { p \in PathsOf(e.subEntries.a) : IsLeaf(EntryAt(e.subEntries.a, p)) }

\* what a leaf owns: (endTime, or now when endTime is null) minus startTime
LeafSpan(e, t) ==
    (IF e.endTime = Null THEN t ELSE e.endTime[2]) - e.startTime[2]

RECURSIVE SumOver(_, _, _)
SumOver(S, e, t) ==
    IF S = {} THEN 0
    ELSE LET p == CHOOSE q \in S : TRUE IN
         LeafSpan(IF p = <<>> THEN e ELSE EntryAt(e.subEntries.a, p), t)
            + SumOver(S \ {p}, e, t)

\* the duration of an entry by the data model: the spans of the leaves below it
TreeDuration(e, t) == SumOver(LeafPathsIn(e), e, t)

RECURSIVE Before(_, _)
Before(p, q) ==
    /\ p # <<>>
    /\ q # <<>>
    /\ \/ p[1] < q[1]
       \/ p[1] = q[1] /\ Before(Tail(p), Tail(q))

FirstRunningLeaf(entries) ==
    IF RunningLeaves(entries) = {} THEN <<>>
    ELSE CHOOSE p \in RunningLeaves(entries) :
            \A q \in RunningLeaves(entries) \ {p} : Before(p, q)

\* C10: for every Tracker, isRunning is true iff the tree contains a leaf (an
\* entry whose subEntries is absent or empty) with null endTime, and
\* getRunningEntry returns the first such leaf in depth-first order, or null.
C10_RunningIffRunningLeaf ==
    last.op = "getRunningEntry" =>
        /\ last.found <=> (RunningLeaves(last.pre.entries) # {})
        /\ last.rpath = FirstRunningLeaf(last.pre.entries)

-----------------------------------------------------------------------------
(* SpecSplice: saveTracker applied to one block of a document.             *)
(* The document holds one or two tracker blocks between lines of prose.    *)
(* The section handed to saveTracker is the one the host reports for the   *)
(* rendered block (every call of the plugin: getSectionInfo()), or the one *)
(* loadAllTrackers reports for it.                                         *)

\* the number of saves in a behaviour of SpecSplice
MaxSaves == 1

Work == <<"Work", 0>>
TStopped == [entries |-> <<Entry(Work, Iso(0), Iso(1))>>]
TRunning == startNewEntry(TStopped, EmptyName, 2)
TParts ==
    [entries |-> <<[startSubEntry(Entry(Work, Iso(0), Iso(1)), EmptyName, 2)
                        EXCEPT !.collapsed = "true"]>>]

Block(ows, payload, cws) == <<Open(ows)>> \o payload \o <<Close(cws)>>

\* payloads: none (a block just created), the one line saveTracker writes,
\* a hand-edited payload of two lines, a payload that is not JSON
SplicePayloads ==
    { <<>>, <<Json(Stringify(TStopped))>>, <<Json(Stringify(TParts)), Blank>>,
      <<Text("oops")>> }

SpliceBlocks ==
    { Block(ows, p, cws) : ows \in BOOLEAN, p \in SplicePayloads, cws \in BOOLEAN }

SpliceDocs ==
    { pre \o b1 \o b2 \o post :
        pre \in {<<>>, <<Text("intro")>>},
        b1 \in SpliceBlocks,
        b2 \in {<<>>} \cup SpliceBlocks,
        post \in {<<>>, <<Text("end")>>} }

SpliceTrackers == {EmptyTracker, TRunning, TParts}

Saved(kind, k, content, located, section, t2, n) ==
    [op |-> "saveTracker", kind |-> kind, doc |-> 1, block |-> k, pre |-> content,
     located |-> located, section |-> section, t2 |-> t2, n |-> n]

InitSplice ==
    /\ docs \in { <<d>> : d \in SpliceDocs }
    /\ last = [op |-> "none", n |-> 0]
    /\ tracker = EmptyTracker /\ now = 0 /\ loaded = TRUE
    /\ views = <<>> /\ tasks = <<>>

\* a view's handler: saveTracker(tracker, getFile(), getSectionInfo(), app)
SaveAtHostSection ==
    \E k \in DOMAIN loadAllTrackers(docs[1]), t2 \in SpliceTrackers :
        LET located == loadAllTrackers(docs[1])[k].section IN
        /\ last.n < MaxSaves
        /\ docs' = [docs EXCEPT ![1] = saveTracker(t2, @, HostSection(located))]
        /\ last' = Saved("host", k, docs[1], located, HostSection(located), t2, last.n + 1)
        /\ UNCHANGED <<tracker, now, loaded, views, tasks>>

\* saveTracker with a section taken from loadAllTrackers
SaveAtLocatedSection ==
    \E k \in DOMAIN loadAllTrackers(docs[1]), t2 \in SpliceTrackers :
        LET located == loadAllTrackers(docs[1])[k].section IN
        /\ last.n < MaxSaves
        /\ docs' = [docs EXCEPT ![1] = saveTracker(t2, @, located)]
        /\ last' = Saved("located", k, docs[1], located, located, t2, last.n + 1)
        /\ UNCHANGED <<tracker, now, loaded, views, tasks>>

NextSplice ==
    \/ SaveAtHostSection
    \/ SaveAtLocatedSection

SpecSplice == InitSplice /\ [][NextSplice]_vars

\* L[from..to), 0-based
Slice(L, from, to) == SubSeq(L, from + 1, to)

\* C5 as the spec states it: with the Section {s, e} the Locator reports for
\* a block, the rewritten document is L[0..s), then the new payload, then
\* L[e+1..), the kept lines unchanged.
C5_SpliceAtLocatedSection ==
    (last.op = "saveTracker" /\ last.kind = "located") =>
        LET L == last.pre
            s == last.located.lineStart
            e == last.located.lineEnd
        IN docs[last.doc] = Slice(L, 0, s) \o <<Json(Stringify(last.t2))>>
                                \o Slice(L, e + 1, Len(L))

\* C5: given the Section {s, e}, saveTracker keeps L[0..s] and L[e..), lines
\* s and e included, unchanged, with the one-line serialization of the new
\* tracker between them; s and e being the fence lines of the block (the
\* section of the host), that is the document with exactly the payload the
\* Locator reports for the block replaced.
C5_SpliceKeepsBoundaryLines ==
    last.op = "saveTracker" =>
        LET L == last.pre
            s == last.section.lineStart
            e == last.section.lineEnd
            new == <<Json(Stringify(last.t2))>>
        IN /\ docs[last.doc] = Slice(L, 0, s + 1) \o new \o Slice(L, e, Len(L))
           /\ last.kind = "host" =>
                docs[last.doc] = Slice(L, 0, last.located.lineStart) \o new
                                    \o Slice(L, last.located.lineEnd + 1, Len(L))

\* a save through the host's section of the first of two blocks, whose
\* payload had two lines, below a line of prose
C5_Witness ==
    /\ last.op = "saveTracker" /\ last.kind = "host" /\ last.block = 1
    /\ Len(loadAllTrackers(last.pre)) = 2
    /\ last.located.lineEnd = last.located.lineStart + 1
    /\ last.pre[1].k = "text"
    /\ Len(docs[last.doc]) = Len(last.pre) - 1

\* rewriting block k with the section of `kind`, then locating again: the
\* fences of the block are unchanged, its payload is one line, the document
\* has as many blocks as before, block k decodes to the tracker written and
\* every other block decodes as before
RewriteThenRelocate(kind) ==
    (last.op = "saveTracker" /\ last.kind = kind) =>
        LET L == last.pre
            R == docs[last.doc]
            before == loadAllTrackers(L)
            after == loadAllTrackers(R)
            k == last.block
            s == last.located.lineStart
            e == last.located.lineEnd
        IN /\ Len(after) = Len(before)
           /\ after[k].section = [lineStart |-> s, lineEnd |-> s]
           /\ R[(s - 1) + 1] = L[(s - 1) + 1]
           /\ R[(s + 1) + 1] = L[(e + 1) + 1]
           /\ after[k].tracker = last.t2
           /\ \A j \in DOMAIN before : j # k => after[j].tracker = before[j].tracker

\* C6 as the spec states it: rewriting a block with the Section the Locator
\* reports for it and locating again finds the same fences, a one-line
\* payload that decodes to the tracker written, and the other blocks as they
\* were.
C6_RelocateAfterLocatedSection == RewriteThenRelocate("located")

\* C6: rewriting a block with the section of the host (its fence lines) and
\* locating again finds the same fences, a one-line payload that decodes to
\* the tracker written, the same number of blocks, and every other block
\* decoding as before.
C6_RelocateAfterHostSection == RewriteThenRelocate("host")

\* the second of two blocks rewritten with a tracker holding sub-entries,
\* its payload not JSON before, the first block holding entries
C6_Witness ==
    /\ last.op = "saveTracker" /\ last.kind = "host" /\ last.block = 2
    /\ last.t2 = TParts
    /\ loadAllTrackers(last.pre)[1].tracker # EmptyTracker
    /\ last.pre[last.located.lineStart + 1].k = "text"
    /\ loadAllTrackers(docs[last.doc])[2].tracker = TParts

-----------------------------------------------------------------------------
(* SpecScan: stopAllRunnersInFile applied to a document of one or two      *)
(* tracker blocks, as stopAllOtherRunningTimers, the "Stop All Running     *)
(* Timers" command and the auto-stop interval apply it to every file.      *)

\* the number of scans in a behaviour of SpecScan
MaxScans == 2

\* two entries running at once, as two startNewEntry calls leave them
TTwoRunning == startNewEntry(startNewEntry(EmptyTracker, Work, 0), EmptyName, 1)

ScanPayloads ==
    { <<>>, <<Text("oops")>>,
      <<Json(Stringify(TStopped))>>, <<Json(Stringify(TRunning))>>,
      <<Json(Stringify(TParts))>>, <<Json(Stringify(TRunning)), Blank>>,
      <<Json(Stringify(TTwoRunning))>> }

ScanBlocks ==
    { Block(ows, p, cws) : ows \in BOOLEAN, p \in ScanPayloads, cws \in BOOLEAN }

ScanDocs ==
    { pre \o b1 \o b2 \o post :
        pre \in {<<>>, <<Text("intro")>>},
        b1 \in ScanBlocks,
        b2 \in {<<>>} \cup ScanBlocks,
        post \in {<<>>, <<Text("end")>>} }

InitScan ==
    /\ docs \in { <<d>> : d \in ScanDocs }
    /\ last = [op |-> "none", n |-> 0]
    /\ now = 2
    /\ tracker = EmptyTracker /\ loaded = TRUE
    /\ views = <<>> /\ tasks = <<>>

\* content = await vault.read(file); await stopAllRunnersInFile(app, file, content)
ScanFile ==
    LET r == stopAllRunnersInFile(docs[1], now) IN
    /\ last.n < MaxScans
    /\ now < MaxTime
    /\ docs' = [docs EXCEPT ![1] = IF r.modified THEN r.content ELSE @]
    /\ last' = [op |-> "stopAllRunnersInFile", doc |-> 1, pre |-> docs[1],
                modified |-> r.modified, at |-> now, n |-> last.n + 1]
    /\ now' = now + 1
    /\ UNCHANGED <<tracker, loaded, views, tasks>>

NextScan == ScanFile

SpecScan == InitScan /\ [][NextScan]_vars

\* C4: after stopAllRunnersInFile has processed a document, no block of the
\* document, as loadAllTrackers locates and decodes it, holds a running
\* entry.
C4_NoRunningBlockAfterScan ==
    last.op = "stopAllRunnersInFile" =>
        \A k \in DOMAIN loadAllTrackers(docs[last.doc]) :
            ~isRunning(loadAllTrackers(docs[last.doc])[k].tracker)

-----------------------------------------------------------------------------
(* SpecStore: two files, a rendered tracker block in each, and the Start   *)
(* and Continue handlers of the two views running as asynchronous tasks on *)
(* one event loop.  A handler gives up control at each await; the file     *)
(* operation it awaits (vault.read, vault.modify) takes effect as one      *)
(* step, together with the synchronous code that led to it.                *)

\* a timer started at instant 0 and still running
TTimer == startNewEntry(EmptyTracker, Work, 0)

\* what the first file holds: the block of view 1 below a line of prose
StoreFile1(a) == <<Text("intro")>> \o Block(FALSE, a, FALSE)
\* what the second file holds: possibly another block, then the block of view 2
StoreFile2(x, b) == x \o Block(FALSE, b, FALSE) \o <<Text("end")>>

\* the payload of a view's block: none (the Start button) or a stopped
\* entry (its Continue button)
ViewPayloads == { <<>>, <<Json(Stringify(TStopped))>> }

\* the other block of the second file: none, a running timer as saveTracker
\* writes it, a running timer whose payload is followed by an empty line
OtherBlocks ==
    { <<>>, Block(FALSE, <<Json(Stringify(TTimer))>>, FALSE),
      Block(FALSE, <<Json(Stringify(TTimer)), Blank>>, FALSE) }

\* the code block processor: tracker = loadTracker(s), sectionInfo =
\* i.getSectionInfo(e), running = isRunning(tracker), for block k of file f
Render(files, f, k) ==
    LET b == loadAllTrackers(files[f])[k] IN
    [file |-> f, section |-> HostSection(b.section), tracker |-> b.tracker,
     running |-> isRunning(b.tracker)]

IdleTask == [pc |-> "idle", kind |-> "none", entry |-> 0, f |-> 0,
             content |-> <<>>, at |-> 0]

InitStore ==
    /\ \E a \in ViewPayloads, b \in ViewPayloads, x \in OtherBlocks :
          /\ docs = <<StoreFile1(a), StoreFile2(x, b)>>
          /\ views = <<Render(docs, 1, 1),
                       Render(docs, 2, Len(loadAllTrackers(docs[2])))>>
    /\ tasks = <<IdleTask, IdleTask>>
    /\ now = 1
    /\ last = [op |-> "none", n |-> 0]
    /\ tracker = EmptyTracker /\ loaded = TRUE

\* the Start button of an empty tracker is clicked
ClickStart ==
    \E v \in DOMAIN tasks :
        /\ tasks[v].pc = "idle"
        /\ views[v].tracker.entries = <<>>
        /\ now < MaxTime
        /\ now' = now + 1
        /\ tasks' = [tasks EXCEPT ![v] = [IdleTask EXCEPT !.pc = "scanRead",
                                             !.kind = "start", !.f = 1]]
        /\ UNCHANGED <<docs, views, last, tracker, loaded>>

\* the Continue button of a top-level entry is clicked; it is disabled when
\* the tracker was running as rendered
ClickContinue ==
    \E v \in DOMAIN tasks : \E i \in DOMAIN views[v].tracker.entries :
        /\ tasks[v].pc = "idle"
        /\ ~views[v].running
        /\ now < MaxTime
        /\ now' = now + 1
        /\ tasks' = [tasks EXCEPT ![v] = [IdleTask EXCEPT !.pc = "scanRead",
                                             !.kind = "continue", !.entry = i, !.f = 1]]
        /\ UNCHANGED <<docs, views, last, tracker, loaded>>

\* stopAllOtherRunningTimers: const content = await app.vault.read(file)
ScanRead ==
    \E v \in DOMAIN tasks :
        /\ tasks[v].pc = "scanRead"
        /\ tasks' = [tasks EXCEPT ![v].content = docs[tasks[v].f], ![v].pc = "scanWrite"]
        /\ UNCHANGED <<docs, views, now, last, tracker, loaded>>

\* stopAllOtherRunningTimers: await stopAllRunnersInFile(content, file.path, app),
\* which ends in await app.vault.modify(file, newContent) if it stopped an entry
ScanWrite ==
    \E v \in DOMAIN tasks :
        LET f == tasks[v].f
            r == stopAllRunnersInFile(tasks[v].content, now)
        IN /\ tasks[v].pc = "scanWrite"
           /\ docs' = IF r.modified THEN [docs EXCEPT ![f] = r.content] ELSE docs
           /\ tasks' = IF f < Len(docs)
                       THEN [tasks EXCEPT ![v].f = f + 1, ![v].pc = "scanRead"]
                       ELSE [tasks EXCEPT ![v].pc = "start"]
           /\ UNCHANGED <<views, now, last, tracker, loaded>>

\* startNewEntry(tracker, name) or startSubEntry(entry, name), then
\* saveTracker up to its await app.vault.read(file)
StartAndRead ==
    \E v \in DOMAIN tasks :
        LET t == views[v].tracker
            started == IF tasks[v].kind = "start"
                       THEN startNewEntry(t, EmptyName, now)
                       ELSE [t EXCEPT !.entries[tasks[v].entry] =
                                          startSubEntry(@, EmptyName, now)]
        IN /\ tasks[v].pc = "start"
           /\ views' = [views EXCEPT ![v].tracker = started]
           /\ tasks' = [tasks EXCEPT ![v].content = docs[views[v].file],
                                     ![v].at = now, ![v].pc = "saveWrite"]
           /\ UNCHANGED <<docs, now, last, tracker, loaded>>

\* saveTracker: await app.vault.modify(file, content)
SaveWrite ==
    \E v \in DOMAIN tasks :
        /\ tasks[v].pc = "saveWrite"
        /\ docs' = [docs EXCEPT ![views[v].file] =
                        saveTracker(views[v].tracker, tasks[v].content, views[v].section)]
        /\ tasks' = [tasks EXCEPT ![v].pc = "done"]
        /\ UNCHANGED <<views, now, last, tracker, loaded>>

NextStore ==
    \/ ClickStart
    \/ ClickContinue
    \/ ScanRead
    \/ ScanWrite
    \/ StartAndRead
    \/ SaveWrite

SpecStore == InitStore /\ [][NextStore]_vars

\* the running leaves of the store: file, block (as loadAllTrackers finds
\* and decodes it), path of the entry
StoreRunning ==
    UNION { UNION { { <<f, k, p>> :
                        p \in RunningLeaves(loadAllTrackers(docs[f])[k].tracker.entries) } :
                    k \in DOMAIN loadAllTrackers(docs[f]) } :
            f \in DOMAIN docs }

StartTimeOf(r) ==
    EntryAt(loadAllTrackers(docs[r[1]])[r[2]].tracker.entries, r[3]).startTime

\* C2: once a Start or Continue action has completed, no other operation
\* having run, the store holds exactly one running leaf, the one the action
\* started.
C2_ExactlyOneRunningAfterStart ==
    \A v \in DOMAIN tasks :
        (tasks[v].pc = "done" /\ \A w \in DOMAIN tasks : w # v => tasks[w].pc = "idle") =>
            /\ Cardinality(StoreRunning) = 1
            /\ \A r \in StoreRunning :
                  r[1] = views[v].file /\ StartTimeOf(r) = Iso(tasks[v].at)

\* C3: once two Start or Continue actions, raced on two documents, have both
\* completed, the store holds at most one running entry.
C3_AtMostOneRunningAfterRace ==
    (\A v \in DOMAIN tasks : tasks[v].pc = "done") => Cardinality(StoreRunning) <= 1

-----------------------------------------------------------------------------
(* SpecCodec: the codec applied to trackers and to payload texts:          *)
(* JSON.stringify (saveTracker), loadTracker, updateLegacyInfo.            *)

\* SpecCodec: the largest number of entries (of all depths) of a tracker
CodecNodes == 3

\* a target time, as a string is kept: see parseTargetTime
TargetOneHourThirty == <<<<1, "h">>, <<30, "m">>>>

\* leaves: stopped and running with ISO times; with an empty array and with
\* null for subEntries; with times in seconds, as the legacy format has
\* them, also the instant 0
CodecLeaves ==
    { Entry(<<"a", 0>>, Iso(0), Iso(2)),
      Entry(<<"b", 0>>, Iso(1), Null),
      [Entry(<<"e", 0>>, Iso(0), Iso(1)) EXCEPT !.subEntries = Arr(<<>>)],
      [Entry(<<"n", 0>>, Iso(0), Iso(1)) EXCEPT !.subEntries = SubNull],
      [Entry(<<"c", 0>>, Unix(1), Null) EXCEPT !.subEntries = Arr(<<>>)],
      Entry(<<"d", 0>>, Unix(1), Unix(2)),
      Entry(<<"z", 0>>, Unix(0), Unix(3)) }

CodecContainersOf(sub) ==
    { [Entry(<<"p", 0>>, own[1], own[2]) EXCEPT !.subEntries = Arr(sub),
                                                !.collapsed = c] :
        own \in {<<Null, Null>>, <<Unix(1), Unix(2)>>}, c \in {"undefined", "true"} }

RECURSIVE CodecForests(_), CodecTrees(_)
CodecTrees(n) ==
    IF n = 1 THEN CodecLeaves
    ELSE UNION { CodecContainersOf(sub) : sub \in CodecForests(n - 1) }

CodecForests(n) ==
    IF n = 0 THEN {<<>>}
    ELSE UNION { { <<e>> \o f : e \in CodecTrees(k), f \in CodecForests(n - k) } :
                 k \in 1..n }

CodecTrackers ==
    UNION { { [entries |-> es], [entries |-> es, targetTime |-> TargetOneHourThirty] } :
            es \in UNION { CodecForests(n) : n \in 0..CodecNodes } }

\* the strings handed to loadTracker: empty, not JSON, JSON of something
\* that is no tracker, two JSON texts, a tracker followed by an empty line
CodecTexts ==
    { <<>>, <<Blank>>, <<Text("oops")>>,
      <<Json(Stringify(TParts)), Json(Stringify(TParts))>>,
      <<Json(Stringify(TParts)), Blank>>, <<Json(Stringify(EmptyTracker))>> }
    \cup { <<Json(NotATracker(kind))>> : kind \in NotTrackerKinds }

InitCodec ==
    /\ \/ tracker \in CodecTrackers /\ docs = <<<<>>>>
       \/ tracker = EmptyTracker /\ docs \in { <<text>> : text \in CodecTexts }
    /\ last = [op |-> "none", n |-> 0]
    /\ now = 0 /\ loaded = FALSE
    /\ views = <<>> /\ tasks = <<>>

\* the payload saveTracker writes for the tracker, read back by the code
\* block processor: loadTracker(JSON.stringify(tracker))
RoundTrip ==
    /\ last' = [op |-> "roundTrip", pre |-> tracker, n |-> 0,
                ret |-> loadTracker(<<Json(Stringify(tracker))>>)]
    /\ UNCHANGED <<tracker, now, loaded, docs, views, tasks>>

\* updateLegacyInfo(ret.entries), which changes the entries in place
MigrateLegacy ==
    /\ tracker' = [tracker EXCEPT !.entries = updateLegacyInfo(@)]
    /\ last' = [op |-> "updateLegacyInfo", pre |-> tracker, n |-> 0]
    /\ UNCHANGED <<now, loaded, docs, views, tasks>>

\* loadTracker(s) of a block's source
LoadText ==
    /\ last' = [op |-> "loadTracker", text |-> docs[1], n |-> 0,
                ret |-> loadTracker(docs[1])]
    /\ UNCHANGED <<tracker, now, loaded, docs, views, tasks>>

NextCodec ==
    \/ RoundTrip
    \/ MigrateLegacy
    \/ LoadText

SpecCodec == InitCodec /\ [][NextCodec]_vars

\* every timestamp of the tree is an ISO string or null
CanonicalTimes(entries) ==
    \A p \in PathsOf(entries) :
        /\ EntryAt(entries, p).startTime[1] \in {"iso", "null"}
        /\ EntryAt(entries, p).endTime[1] \in {"iso", "null"}

\* no entry holds an empty array or null for subEntries
NoEmptySubEntries(entries) ==
    \A p \in PathsOf(entries) :
        \/ EntryAt(entries, p).subEntries.t = "undefined"
        \/ /\ EntryAt(entries, p).subEntries.t = "array"
           /\ Len(EntryAt(entries, p).subEntries.a) > 0

\* every subEntries is an Entry[] or absent, as the interface declares it
SubEntriesTyped(entries) ==
    \A p \in PathsOf(entries) : EntryAt(entries, p).subEntries.t # "null"

\* C11 as the spec states it: for every Tracker t whose timestamps are ISO
\* strings, loadTracker(JSON.stringify(t)) equals t.
C11_RoundTripOfAnyTracker ==
    (last.op = "roundTrip" /\ CanonicalTimes(last.pre.entries)
        /\ SubEntriesTyped(last.pre.entries)) =>
            last.ret = last.pre

\* C11: for every Tracker t whose timestamps are ISO strings and in which
\* no entry has an empty or null subEntries, loadTracker(JSON.stringify(t))
\* equals t: entries, order, names, times, nesting, collapsed, targetTime.
C11_RoundTripOfCanonicalTracker ==
    (last.op = "roundTrip" /\ CanonicalTimes(last.pre.entries)
        /\ NoEmptySubEntries(last.pre.entries)) =>
            last.ret = last.pre

\* a round trip of a tracker with a target time and a collapsed container
\* of two leaves
C11_Witness ==
    /\ last.op = "roundTrip"
    /\ CanonicalTimes(last.pre.entries) /\ NoEmptySubEntries(last.pre.entries)
    /\ "targetTime" \in DOMAIN last.pre
    /\ Len(last.pre.entries) = 1
    /\ last.pre.entries[1].collapsed = "true"
    /\ Len(last.pre.entries[1].subEntries.a) = 2
    /\ last.ret = last.pre

\* the migration as the spec states it: every time kept in seconds becomes
\* the ISO string of the same instant, every empty or null subEntries
\* becomes absent, at every depth, and nothing else changes
RECURSIVE MigratedAsStated(_)
MigratedAsStated(entries) ==
    [i \in DOMAIN entries |->
        LET e == entries[i] IN
        [name |-> e.name,
         startTime |-> IF e.startTime[1] = "unix" THEN Iso(e.startTime[2] * 1000)
                       ELSE e.startTime,
         endTime |-> IF e.endTime[1] = "unix" THEN Iso(e.endTime[2] * 1000)
                     ELSE e.endTime,
         subEntries |-> IF Len(e.subEntries.a) = 0 THEN SubUndefined
                        ELSE Arr(MigratedAsStated(e.subEntries.a)),
         collapsed |-> e.collapsed]]

\* C12: updateLegacyInfo replaces every time kept as an integer, at every
\* depth, by the ISO string of the same instant, makes every empty or null
\* subEntries absent, changes nothing else, and applying it again changes
\* nothing.
C12_MigrationAsStated ==
    last.op = "updateLegacyInfo" =>
        /\ tracker.entries = MigratedAsStated(last.pre.entries)
        /\ updateLegacyInfo(tracker.entries) = tracker.entries
        /\ tracker = [last.pre EXCEPT !.entries = tracker.entries]

\* the text is one JSON text spelling a tracker, around it only empty lines
SpellsTracker(text) ==
    /\ Len(SelectSeq(text, LAMBDA l : l.k # "blank")) = 1
    /\ \A i \in DOMAIN text :
          text[i].k # "blank" => (text[i].k = "json" /\ "entries" \in DOMAIN text[i].v)

\* C13: loadTracker returns a Tracker for every string and never throws;
\* for the empty string, a string that is not JSON, or JSON that is not a
\* tracker it returns the empty Tracker.
C13_LoadNeverThrows ==
    last.op = "loadTracker" =>
        /\ "entries" \in DOMAIN last.ret
        /\ ~SpellsTracker(last.text) => last.ret = EmptyTracker

\* loadTracker of a text that is not JSON, of JSON null and of an object
\* without entries has returned the empty tracker
C13_Witness ==
    /\ last.op = "loadTracker"
    /\ last.text \in { <<Text("oops")>>, <<Json(NotATracker("null"))>>,
                       <<Json(NotATracker("object"))>> }
    /\ last.ret = EmptyTracker

-----------------------------------------------------------------------------
(* loadAllTrackers over every document of up to MaxLines lines.            *)

MaxLines == 6

LocateAlphabet ==
    { Text("prose"), Blank, Open(FALSE), Open(TRUE), Close(FALSE), Close(TRUE),
      Json(Stringify(TRunning)) }

LocateDocs == UNION { [1..n -> LocateAlphabet] : n \in 0..MaxLines }

InitLocate ==
    /\ docs \in { <<content>> : content \in LocateDocs }
    /\ last = [op |-> "none", n |-> 0]
    /\ tracker = EmptyTracker /\ now = 0 /\ loaded = FALSE
    /\ views = <<>> /\ tasks = <<>>

\* api.loadAllTrackers(fileName) of the document
LoadAllTrackers ==
    /\ last.op = "none"
    /\ last' = [op |-> "loadAllTrackers", n |-> 0, ret |-> loadAllTrackers(docs[1])]
    /\ UNCHANGED <<tracker, now, loaded, docs, views, tasks>>

\* the document is edited: a line is appended
AppendLine ==
    /\ last.op = "none"
    /\ Len(docs[1]) < MaxLines
    /\ \E line \in LocateAlphabet : docs' = <<Append(docs[1], line)>>
    /\ UNCHANGED <<tracker, now, last, loaded, views, tasks>>

NextLocate ==
    \/ LoadAllTrackers
    \/ AppendLine

SpecLocate == InitLocate /\ [][NextLocate]_vars

\* whether the line, without its trailing white space, is a fence of a
\* time-tracker-plus block
FenceLine(line) == line.k \in {"open", "close"}

\* the closed blocks of a document: <<i, j>> where line i is an opening
\* fence, line j > i a closing fence, and no fence line lies between them
ClosedBlocks(content) ==
    { b \in (0..(Len(content) - 1)) \X (0..(Len(content) - 1)) :
        /\ b[1] < b[2]
        /\ content[b[1] + 1].k = "open"
        /\ content[b[2] + 1].k = "close"
        /\ \A m \in (b[1] + 1)..(b[2] - 1) : ~FenceLine(content[m + 1]) }

\* the pair the claim states for the closed block b
PairOf(content, b) ==
    [section |-> [lineStart |-> b[1] + 1, lineEnd |-> b[2] - 1],
     tracker |-> loadTracker(SubSeq(content, b[1] + 2, b[2]))]

\* C14: for a document with k closed time-tracker-plus blocks loadAllTrackers
\* returns exactly k pairs in document order; each pair's section runs from
\* the block's first payload line to the line before its closing fence, its
\* tracker is the decode of the payload lines between the fences; fences are
\* recognised with trailing white space; an unclosed block yields no pair.
C14_OnePairPerClosedBlock ==
    last.op = "loadAllTrackers" =>
        /\ Len(last.ret) = Cardinality(ClosedBlocks(docs[1]))
        /\ { last.ret[n] : n \in DOMAIN last.ret }
               = { PairOf(docs[1], b) : b \in ClosedBlocks(docs[1]) }
        /\ \A n \in 1..(Len(last.ret) - 1) :
               last.ret[n].section.lineEnd < last.ret[n + 1].section.lineStart

\* two blocks located in one document, one of them behind a fence with
\* trailing white space and holding a decoded running tracker, while an
\* opening fence of the document is left without a pair
C14_Witness ==
    /\ last.op = "loadAllTrackers"
    /\ Len(last.ret) = 2
    /\ \E n \in DOMAIN last.ret :
           /\ docs[1][last.ret[n].section.lineStart].ws
           /\ last.ret[n].tracker = TRunning
    /\ Cardinality({ i \in DOMAIN docs[1] : docs[1][i].k = "open" }) > 2

-----------------------------------------------------------------------------
(* SpecScanAll: the "Stop All Running Timers" command over a store of two  *)
(* documents, run up to MaxScans times with nothing else writing.          *)

\* a running entry whose name the user typed as "$$"
Dollars == <<"$$", 0>>
TDollars == startNewEntry(EmptyTracker, Dollars, 0)

ScanAllPayloads == ScanPayloads \cup { <<Json(Stringify(TDollars))>> }

ScanAllBlocks ==
    { Block(ows, p, cws) : ows \in BOOLEAN, p \in ScanAllPayloads, cws \in {FALSE} }

\* the first document: one or two blocks between optional prose
ScanAllFirst ==
    { pre \o b1 \o b2 \o post :
        pre \in {<<>>, <<Text("intro")>>},
        b1 \in ScanAllBlocks,
        b2 \in {<<>>} \cup ScanAllBlocks,
        post \in {<<>>, <<Text("end")>>} }

\* the second document: a note without a block, a stopped or a running timer
ScanAllSecond ==
    { <<Text("note")>>,
      Block(FALSE, <<Json(Stringify(TStopped))>>, FALSE),
      Block(FALSE, <<Json(Stringify(TRunning))>>, FALSE) }

InitScanAll ==
    /\ docs \in { <<d1, d2>> : d1 \in ScanAllFirst, d2 \in ScanAllSecond }
    /\ last = [op |-> "none", n |-> 0]
    /\ now = 2
    /\ tracker = EmptyTracker /\ loaded = TRUE
    /\ views = <<>> /\ tasks = <<>>

\* the command's callback: for each markdown file, read it and run
\* stopAllRunnersInFile, which writes the file once if it modified it;
\* stoppedCount counts the files for which it returned true
StopAllTimers ==
    LET r == [f \in DOMAIN docs |-> stopAllRunnersInFile(docs[f], now)] IN
    /\ last.n < MaxScans
    /\ now < MaxTime
    /\ docs' = [f \in DOMAIN docs |-> IF r[f].modified THEN r[f].content ELSE docs[f]]
    /\ last' = [op |-> "stopAllTimers", pre |-> docs, at |-> now, n |-> last.n + 1,
                stoppedCount |-> Cardinality({ f \in DOMAIN docs : r[f].modified }),
                writes |-> [f \in DOMAIN docs |-> IF r[f].modified THEN 1 ELSE 0]]
    /\ now' = now + 1
    /\ UNCHANGED <<tracker, loaded, views, tasks>>

NextScanAll == StopAllTimers

SpecScanAll == InitScanAll /\ [][NextScanAll]_vars

\* the blocks of a document whose decoded tracker is running
RunningBlocks(content) ==
    { k \in DOMAIN loadAllTrackers(content) :
        isRunning(loadAllTrackers(content)[k].tracker) }

HoldsRunning(content) == RunningBlocks(content) # {}

\* the running leaves of all blocks of all documents
StoreRunningLeaves(store) ==
    { <<f, k, p>> \in UNION { UNION { { <<f, k, p>> :
              p \in RunningLeaves(loadAllTrackers(store[f])[k].tracker.entries) } :
              k \in DOMAIN loadAllTrackers(store[f]) } : f \in DOMAIN store } : TRUE }

\* C15: scanning a store in which exactly one document holds a block with a
\* running tracker gives the running leaf an endTime and reports one
\* modified document; a second scan right after a completed scan modifies no
\* document and reports zero.
C15_ScanThenScanAgain ==
    /\ ( /\ last.op = "stopAllTimers"
         /\ last.n = 1
         /\ Cardinality({ f \in DOMAIN last.pre : HoldsRunning(last.pre[f]) }) = 1
         /\ Cardinality(StoreRunningLeaves(last.pre)) = 1 )
       => /\ last.stoppedCount = 1
          /\ StoreRunningLeaves(docs) = {}
    /\ ( /\ last.op = "stopAllTimers"
         /\ last.n = 2 )
       => /\ last.stoppedCount = 0
          /\ docs = last.pre

\* the payload lines of a located block
PayloadOf(content, section) ==
    SubSeq(content, section.lineStart + 1, section.lineEnd + 1)

\* a block whose payload fails to parse, a block whose payload decodes
MalformedBlock(content, k) ==
    tryLoad(PayloadOf(content, loadAllTrackers(content)[k].section)).threw # "no"

ValidBlock(content, k) == ~MalformedBlock(content, k)

\* C16: when a document holds several tracker blocks and one of them has a
\* payload that fails to parse, the scan still stops the running entry of
\* every valid block of that document, before or after the malformed one,
\* leaves the number of blocks as it was, and writes the document if a valid
\* block held a running entry.
C16_MalformedBlockIsSkipped ==
    last.op = "stopAllTimers" =>
        \A f \in DOMAIN docs :
            LET pre == loadAllTrackers(last.pre[f])
                post == loadAllTrackers(docs[f])
                valid == { k \in DOMAIN pre : ValidBlock(last.pre[f], k)
                                               /\ isRunning(pre[k].tracker) }
            IN ( /\ Len(pre) >= 2
                 /\ \E k \in DOMAIN pre : MalformedBlock(last.pre[f], k) )
               => /\ Len(post) = Len(pre)
                  /\ \A k \in valid :
                         Cardinality(RunningLeaves(post[k].tracker.entries))
                             = Cardinality(RunningLeaves(pre[k].tracker.entries)) - 1
                  /\ valid # {} => last.writes[f] = 1

\* the tracker with the entry getRunningEntry returns ended at the instant
StoppedAt(t, at) ==
    [t EXCEPT !.entries =
        ReplaceAt(@, getRunningEntry(t.entries),
                  [EntryAt(t.entries, getRunningEntry(t.entries))
                       EXCEPT !.endTime = Iso(at)])]

\* the document with the payload of each block of S replaced by the
\* serialization of its tracker stopped at the instant, all else as it was
RECURSIVE SpliceStopped(_, _, _)
SpliceStopped(content, S, at) ==
    IF S = {} THEN content
    ELSE LET k == CHOOSE x \in S : \A y \in S : y <= x
             b == loadAllTrackers(content)[k]
         IN SpliceStopped(
                SubSeq(content, 1, b.section.lineStart)
                    \o <<Json(Stringify(StoppedAt(b.tracker, at)))>>
                    \o SubSeq(content, b.section.lineEnd + 2, Len(content)),
                S \ {k}, at)

\* C17: a scan writes a document at most once and only if one of its blocks
\* had a running entry; a document with no running entry is not written; a
\* written document is the input with, for some of its running blocks, the
\* payload replaced by the serialization of that block's tracker with its
\* running entry stopped, and everything else identical; the count reported
\* equals the number of documents written.
C17_ScanFrame ==
    last.op = "stopAllTimers" =>
        /\ \A f \in DOMAIN docs :
               /\ last.writes[f] <= 1
               /\ last.writes[f] = 1 => HoldsRunning(last.pre[f])
               /\ last.writes[f] = 0 => docs[f] = last.pre[f]
               /\ last.writes[f] = 1 =>
                      \E S \in SUBSET RunningBlocks(last.pre[f]) :
                          /\ S # {}
                          /\ docs[f] = SpliceStopped(last.pre[f], S, last.at)
        /\ last.stoppedCount = Cardinality({ f \in DOMAIN docs : last.writes[f] = 1 })

-----------------------------------------------------------------------------
(* SpecVault: saveTracker called with any path: a document of the store, a *)
(* folder, or a path the store does not hold (the document was deleted     *)
(* while its view stayed rendered).                                        *)

\* paths: 1..Len(store) are the documents, FolderPath is a folder, any other
\* path is absent
FolderPath == 0

\* app.vault.getAbstractFileByPath(fileName), by the class of what it returns
getAbstractFileByPath(store, path) ==
    IF path \in DOMAIN store THEN "TFile"
    ELSE IF path = FolderPath THEN "TFolder"
    ELSE "null"

\* a saveTracker that reads whatever getAbstractFileByPath returned: reading
\* a folder or null raises
saveTrackerUnguarded(t, store, path, section) ==
    IF getAbstractFileByPath(store, path) = "TFile"
    THEN [store |-> [store EXCEPT ![path] = saveTracker(t, @, section)],
          writes |-> 1, threw |-> FALSE]
    ELSE [store |-> store, writes |-> 0, threw |-> TRUE]

\* saveTracker(tracker, fileName, section, app) on the store: the store
\* after the call, the number of vault.modify calls, whether it raised
saveTrackerAt(t, store, path, section) ==
    IF getAbstractFileByPath(store, path) # "TFile"
    THEN [store |-> store, writes |-> 0, threw |-> FALSE]
    ELSE [store |-> [store EXCEPT ![path] = saveTracker(t, @, section)],
          writes |-> 1, threw |-> FALSE]

VaultDocs ==
    { pre \o Block(FALSE, p, FALSE) \o post :
        pre \in {<<>>, <<Text("intro")>>},
        p \in SplicePayloads,
        post \in {<<>>, <<Text("end")>>} }

InitVault ==
    /\ docs \in { <<d1, d2>> : d1 \in VaultDocs, d2 \in VaultDocs }
    /\ last = [op |-> "none", n |-> 0]
    /\ tracker = EmptyTracker /\ now = 0 /\ loaded = TRUE
    /\ views = <<>> /\ tasks = <<>>

\* a view's handler saves: the section is the one the host gave the view
\* when it rendered a block, the path the one the view tracks
SaveAtPath ==
    \E path \in 0..(Len(docs) + 1), t2 \in SpliceTrackers,
       from \in { f \in DOMAIN docs : loadAllTrackers(docs[f]) # <<>> } :
        LET section == HostSection(loadAllTrackers(docs[from])[1].section)
            r == saveTrackerAt(t2, docs, path, section)
        IN /\ last.n < MaxSaves
           /\ docs' = r.store
           /\ last' = [op |-> "saveTracker", path |-> path, pre |-> docs,
                       t2 |-> t2, section |-> section, n |-> last.n + 1,
                       writes |-> r.writes, threw |-> r.threw]
           /\ UNCHANGED <<tracker, now, loaded, views, tasks>>

\* the document a view was rendered from is deleted
DeleteFile ==
    /\ last.op = "none"
    /\ Len(docs) > 1
    /\ docs' = SubSeq(docs, 1, Len(docs) - 1)
    /\ UNCHANGED <<tracker, now, last, loaded, views, tasks>>

NextVault ==
    \/ SaveAtPath
    \/ DeleteFile

SpecVault == InitVault /\ [][NextVault]_vars

\* C18: saveTracker called with a path that is absent from the store or is
\* not a document writes nothing, leaves every document unchanged and
\* returns without raising.
C18_SaveToMissingPathIsNoOp ==
    ( /\ last.op = "saveTracker"
      /\ getAbstractFileByPath(last.pre, last.path) # "TFile" )
    => /\ last.writes = 0
       /\ docs = last.pre
       /\ ~last.threw

\* a save to the path of a deleted document, a save to a folder
C18_Witness ==
    /\ last.op = "saveTracker"
    /\ getAbstractFileByPath(last.pre, last.path) = "null"
    /\ Len(last.pre) = 1
    /\ last.path = 2
    /\ last.t2 = TRunning
    /\ docs = last.pre

-----------------------------------------------------------------------------
(* SpecTarget: parseTargetTime.  A target string is kept as the sequence   *)
(* of its pieces: <<n, u>> is the digits of n followed by the letter u     *)
(* ("30m" is <<30, "m">>), <<0, " ">> is a blank.  A number of             *)
(* milliseconds is kept as <<q, r>>, standing for q * 1000 + r with        *)
(* 0 <= r < 1000, since a year of milliseconds exceeds the integers of     *)
(* the checker but not the numbers of the program.                         *)

MaxCount == 30
MaxPieces == 2

UnitOrder == <<"y", "M", "d", "h", "m", "s">>
Units == { UnitOrder[k] : k \in DOMAIN UnitOrder }

Str(s) == [t |-> "string", s |-> s]
Undefined == [t |-> "undefined", s |-> <<>>]

\* x * 1000 as a number of milliseconds
Times1000(x) == <<x, 0>>

\* a month of 31 days
SecondsOfLongMonth(u) ==
    CASE u = "y" -> 365 * 24 * 60 * 60
      [] u = "M" -> 31 * 24 * 60 * 60
      [] u = "d" -> 24 * 60 * 60
      [] u = "h" -> 60 * 60
      [] u = "m" -> 60
      [] u = "s" -> 1

\* the factor of each captured number in the returned sum (lines 241-246)
SecondsOf(u) ==
    CASE u = "y" -> 365 * 24 * 60 * 60
      [] u = "M" -> 30 * 24 * 60 * 60
      [] u = "d" -> 24 * 60 * 60
      [] u = "h" -> 60 * 60
      [] u = "m" -> 60
      [] u = "s" -> 1

\* targetTime.match(regex): every group of the expression is optional, so it
\* matches at the start of the string; group k captures the piece at the
\* current place if that piece is digits followed by the k-th letter, and is
\* undefined (here -1) otherwise
RECURSIVE MatchGroups(_, _, _)
MatchGroups(s, p, k) ==
    IF k > Len(UnitOrder) THEN <<>>
    ELSE IF p <= Len(s) /\ s[p][2] = UnitOrder[k]
         THEN <<s[p][1]>> \o MatchGroups(s, p + 1, k + 1)
         ELSE <<-1>> \o MatchGroups(s, p, k + 1)

\* parseInt(match[k] || "0")
ParseIntOrZero(capture) == IF capture = -1 THEN 0 ELSE capture

RECURSIVE SumSeconds(_, _)
SumSeconds(match, k) ==
    IF k > Len(match) THEN 0
    ELSE ParseIntOrZero(match[k]) * SecondsOf(UnitOrder[k]) + SumSeconds(match, k + 1)

parseTargetTime(targetTime) ==
    IF targetTime.t = "undefined" \/ targetTime.s = <<>> THEN <<0, 0>>
    ELSE Times1000(SumSeconds(MatchGroups(targetTime.s, 1, 1), 1))

Counts == {0, 1, MaxCount}

\* a choice for each letter: a count, or -1 for a group left out
GroupChoices == [DOMAIN UnitOrder -> Counts \cup {-1}]

\* the string made of the chosen groups in the fixed order
RECURSIVE Compose(_, _)
Compose(choice, k) ==
    IF k > Len(UnitOrder) THEN <<>>
    ELSE (IF choice[k] = -1 THEN <<>> ELSE << <<choice[k], UnitOrder[k]>> >>)
             \o Compose(choice, k + 1)

Pieces == { <<n, u>> : n \in {1, MaxCount}, u \in Units } \cup { <<0, " ">> }

TargetStrings ==
    { Compose(c, 1) : c \in GroupChoices }
        \cup UNION { [1..n -> Pieces] : n \in 0..MaxPieces }

TargetTimeOf(t) ==
    IF "targetTime" \in DOMAIN t THEN Str(t.targetTime) ELSE Undefined

InitTarget ==
    /\ tracker \in { EmptyTracker }
           \cup { [entries |-> <<>>, targetTime |-> s] : s \in TargetStrings }
    /\ last = [op |-> "none", n |-> 0]
    /\ now = 0 /\ loaded = TRUE
    /\ docs = <<>> /\ views = <<>> /\ tasks = <<>>

\* parseTargetTime(tracker.targetTime)
ParseTargetTime ==
    /\ last.op = "none"
    /\ last' = [op |-> "parseTargetTime", n |-> 0,
                targetTime |-> TargetTimeOf(tracker),
                ret |-> parseTargetTime(TargetTimeOf(tracker))]
    /\ UNCHANGED <<tracker, now, loaded, docs, views, tasks>>

\* the progress bar of a tracker with a target: updateProgressBar draws it
\* when the parsed target is positive
UpdateProgressBar ==
    /\ last.op = "none"
    /\ "targetTime" \in DOMAIN tracker /\ tracker.targetTime # <<>>
    /\ last' = [op |-> "updateProgressBar", n |-> 0,
                targetTime |-> TargetTimeOf(tracker),
                ret |-> parseTargetTime(TargetTimeOf(tracker)),
                drawn |-> parseTargetTime(TargetTimeOf(tracker)) # <<0, 0>>]
    /\ UNCHANGED <<tracker, now, loaded, docs, views, tasks>>

NextTarget ==
    \/ ParseTargetTime
    \/ UpdateProgressBar

SpecTarget == InitTarget /\ [][NextTarget]_vars

\* the unit constants the claim names, in seconds: a year of 365 days, a
\* month of 30 days
ClaimedSeconds == <<31536000, 2592000, 86400, 3600, 60, 1>>

RECURSIVE ClaimedSum(_, _)
ClaimedSum(choice, k) ==
    IF k > Len(UnitOrder) THEN 0
    ELSE (IF choice[k] = -1 THEN 0 ELSE choice[k] * ClaimedSeconds[k])
             + ClaimedSum(choice, k + 1)

\* C19: for a string made of any subset of the groups Ny NM Nd Nh Nm Ns in
\* that order parseTargetTime returns the sum of N times the unit constant
\* in milliseconds, a missing group counting 0 ("1h30m" gives 5400000); for
\* an absent string and for a string holding none of the groups it returns 0.
C19_TargetIsSumOfGroups ==
    last.op = "parseTargetTime" =>
        /\ \A c \in GroupChoices :
               last.targetTime = Str(Compose(c, 1))
                   => last.ret = <<ClaimedSum(c, 1), 0>>
        /\ last.targetTime = Str(TargetOneHourThirty) => last.ret = <<5400, 0>>
        /\ ( \/ last.targetTime = Undefined
             \/ \A p \in DOMAIN last.targetTime.s : last.targetTime.s[p][2] \notin Units )
           => last.ret = <<0, 0>>

\* a target of all six groups parsed, the months among them
C19_Witness ==
    /\ last.op = "parseTargetTime"
    /\ Len(last.targetTime.s) = 6
    /\ last.targetTime.s[2] = <<1, "M">>
    /\ last.ret[1] > 31536000

-----------------------------------------------------------------------------
(* Read-modify-write cycles of the tasks of SpecStore.                     *)

\* C20: every read-modify-write cycle on a document completes without
\* another task's write to the same document landing between its read and
\* its write: whenever a task's write changes a document, the document still
\* held what the task had read, so no completed save is overwritten by
\* content computed from an older read.
C20_NoWriteBetweenReadAndWrite ==
    [][ \A v \in DOMAIN tasks : \A f \in DOMAIN docs :
            ( /\ tasks[v].pc \in {"scanWrite", "saveWrite"}
              /\ tasks'[v].pc # tasks[v].pc
              /\ docs'[f] # docs[f] )
            => docs[f] = tasks[v].content ]_vars

-----------------------------------------------------------------------------
(* SpecEdit: the operations a view and the auto-stop scan apply to the     *)
(* entry tree of one tracker, in any order: Start, Continue, Stop, Remove, *)
(* the edit-save handler of a row, and the scan's stop.                    *)

\* the largest number of entries (of all depths) of the tracker
EditNodes == 5

Renamed == <<"Renamed", 0>>

\* the text of an edit box: "" or the editable text of an instant
EmptyBox == <<"", 0>>
formatEditableTimestamp(timestamp) == <<"text", timestamp[2]>>
unformatEditableTimestamp(formatted) == Iso(formatted[2])

\* EditableTimestampField.beginEdit(value)
beginEdit(value) ==
    IF TruthyTime(value) THEN formatEditableTimestamp(value) ELSE EmptyBox

\* EditableTimestampField.getTimestamp()
getTimestamp(box) ==
    IF box # EmptyBox THEN unformatEditableTimestamp(box) ELSE Null

\* saveChanges of the row of `entry`, whose boxes hold nameBox, startBox and
\* endBox; entryRunning is hasRunningEntry(entry) as the row was rendered
saveChanges(entry, nameBox, startBox, endBox) ==
    LET named == [entry EXCEPT !.name = nameBox,
                               !.startTime = getTimestamp(startBox)]
    IN IF ~hasRunningEntry(entry)
       THEN [named EXCEPT !.endTime = getTimestamp(endBox)]
       ELSE named

\* what the user can leave in a time box that startEditing filled from
\* `value`: the text as it is, nothing, or the text of another instant
BoxEdits(value) == { beginEdit(value), EmptyBox, formatEditableTimestamp(Iso(0)) }

\* the Edit button of a row pressed twice: startEditing fills the boxes of a
\* leaf (the time boxes of a container stay empty), the user edits them,
\* saveChanges stores them
SaveChanges ==
    \E path \in PathsOf(tracker.entries) :
        LET entry == EntryAt(tracker.entries, path)
            leaf == ~TruthySub(entry.subEntries)
        IN \E nameBox \in {entry.name, Renamed},
              startBox \in IF leaf THEN BoxEdits(entry.startTime)
                           ELSE {beginEdit(entry.startTime)},
              endBox \in IF leaf /\ ~hasRunningEntry(entry) THEN BoxEdits(entry.endTime)
                         ELSE {beginEdit(entry.endTime)} :
            /\ tracker' = [tracker EXCEPT !.entries =
                              ReplaceAt(@, path, saveChanges(entry, nameBox, startBox, endBox))]
            /\ last' = Op("saveChanges", path, nameBox, tracker, FALSE, 0, <<>>)
            /\ UNCHANGED <<now, loaded, docs, views, tasks>>

\* the scan stops the entry getRunningEntry returns and the view renders the
\* tracker again from the rewritten block
AutoStopScan ==
    /\ isRunning(tracker)
    /\ now < MaxTime
    /\ tracker' = StoppedAt(tracker, now)
    /\ last' = Op("autoStop", getRunningEntry(tracker.entries), EmptyName, tracker,
                  TRUE, 0, <<>>)
    /\ now' = now + 1
    /\ UNCHANGED <<loaded, docs, views, tasks>>

\* the entries a rendered tracker can hold: stopped and running leaves, and
\* containers (own times null, as startSubEntry leaves them) of two or more
\* entries
EditLeaves ==
    { Entry(<<"a", 0>>, Iso(0), Iso(1)), Entry(<<"b", 0>>, Iso(1), Null) }

RECURSIVE EditForests(_), EditTrees(_)
EditTrees(n) ==
    IF n = 1 THEN EditLeaves
    ELSE { [Entry(<<"p", 0>>, Null, Null) EXCEPT !.subEntries = Arr(sub)] :
             sub \in { f \in EditForests(n - 1) : Len(f) >= 2 } }

EditForests(n) ==
    IF n = 0 THEN {<<>>}
    ELSE UNION { { <<e>> \o f : e \in EditTrees(k), f \in EditForests(n - k) } : k \in 1..n }

EditTrackers ==
    UNION { { [entries |-> es], [entries |-> es, targetTime |-> TargetOneHourThirty] } :
            es \in UNION { EditForests(n) : n \in 0..EditNodes } }

InitEdit ==
    /\ tracker \in EditTrackers
    /\ now = 2
    /\ last = NoOp
    /\ loaded = TRUE
    /\ docs = <<>> /\ views = <<>> /\ tasks = <<>>

\* one operation on the rendered tracker, which is then saved and rendered
\* again
EditStart == last.op = "none" /\ StartNewEntry
EditContinue == last.op = "none" /\ StartSubEntry
EditStop == last.op = "none" /\ Stop
EditRemove == last.op = "none" /\ RemoveEntry
EditSave == last.op = "none" /\ SaveChanges
EditAutoStop == last.op = "none" /\ AutoStopScan

\* the identity of an entry object that is not in the tree (all paths of the
\* tree start at 1)
Detached == <<0>>

\* Remove confirmed for a row whose entry is no longer in the tree (the
\* dialog of the same row was confirmed twice): the target is an object equal
\* in value to what the row showed and found nowhere in tracker.entries
EditRemoveDetached ==
    /\ last.op = "none"
    /\ tracker.entries # <<>>
    /\ LET r == removeEntry(tracker.entries, <<>>, Detached) IN
       /\ tracker' = [tracker EXCEPT !.entries = r.entries]
       /\ last' = Op("removeEntry", Detached, EmptyName, tracker, r.found, 0, <<>>)
    /\ UNCHANGED <<now, loaded, docs, views, tasks>>

NextEdit ==
    \/ EditRemoveDetached
    \/ EditStart
    \/ EditContinue
    \/ EditStop
    \/ EditRemove
    \/ EditSave
    \/ EditAutoStop

SpecEdit == InitEdit /\ [][NextEdit]_vars

\* where the entry at path p of the tree is after removeEntry of the entry
\* at path r; <<>> when it is no longer in the tree (removed with r, or
\* dropped with a flattened container)
ImageAfterRemove(entries, r, p) ==
    LET n == Len(r)
        siblings == IF n = 1 THEN Len(entries)
                    ELSE Len(EntryAt(entries, Parent(r)).subEntries.a)
    IN IF Len(p) >= n /\ SubSeq(p, 1, n) = r THEN <<>>
       ELSE IF Len(p) >= n /\ SubSeq(p, 1, n - 1) = Parent(r)
            THEN IF n >= 2 /\ siblings = 2
                 THEN IF Len(p) = n THEN Parent(r) ELSE <<>>
                 ELSE IF p[n] > r[n] THEN [p EXCEPT ![n] = @ - 1] ELSE p
            ELSE p

EditOps ==
    {"startNewEntry", "startSubEntry", "stop", "removeEntry", "saveChanges", "autoStop"}

\* C21: a leaf never reopens: no operation (start, continue, stop, remove,
\* edit-save, auto-stop) sets a non-null endTime of a leaf back to null;
\* continuing a stopped entry adds a new running sibling and keeps the
\* stopped segment's start and end times in the child "Part 1".
C21_LeafNeverReopens ==
    last.op \in EditOps =>
        \A p \in PathsOf(last.pre.entries) :
            LET e == EntryAt(last.pre.entries, p) IN
            (IsLeaf(e) /\ e.endTime # Null) =>
                IF last.op = "startSubEntry" /\ last.path = p
                THEN LET c == EntryAt(tracker.entries, p).subEntries.a IN
                     /\ Len(c) = 2
                     /\ c[1].name = <<"Part", 1>>
                     /\ c[1].startTime = e.startTime /\ c[1].endTime = e.endTime
                     /\ IsLeaf(c[1])
                     /\ IsLeaf(c[2]) /\ c[2].endTime = Null
                ELSE IF last.op = "removeEntry"
                THEN LET q == IF last.found
                               THEN ImageAfterRemove(last.pre.entries, last.path, p)
                               ELSE p
                     IN q # <<>> => EntryAt(tracker.entries, q).endTime = e.endTime
                ELSE EntryAt(tracker.entries, p).endTime # Null

-----------------------------------------------------------------------------
(* Claims about single operations of the entry tree, checked under Spec    *)

NamesOf(entries) == [i \in DOMAIN entries |-> entries[i].name]

\* C22: startSubEntry on a leaf makes it a container whose first child
\* "Part 1" carries the leaf's former times, clears the parent's own times
\* and appends a second, running child; on a container it only appends one
\* running child; an empty name becomes "Part {k+1}", k the child count
\* before the append, so two calls with empty names on a fresh leaf "Work"
\* give "Part 1", "Part 2", "Part 3"; nothing else in the tracker changes.
C22_StartSubEntrySplitsOrAppends ==
    last.op = "startSubEntry" =>
        LET old == EntryAt(last.pre.entries, last.path)
            new == EntryAt(tracker.entries, last.path)
            c == new.subEntries.a
            k == Len(c) - 1
            added == c[Len(c)]
        IN /\ ReplaceAt(tracker.entries, last.path, old) = last.pre.entries
           /\ new.name = old.name
           /\ IsLeaf(added)
           /\ added.startTime = Iso(last.at) /\ added.endTime = Null
           /\ added.name = IF last.name = EmptyName THEN <<"Part", k + 1>> ELSE last.name
           /\ IsLeaf(old) =>
                  /\ Len(c) = 2
                  /\ c[1].name = <<"Part", 1>>
                  /\ c[1].startTime = old.startTime /\ c[1].endTime = old.endTime
                  /\ IsLeaf(c[1])
                  /\ new.startTime = Null /\ new.endTime = Null
           /\ IsContainer(old) =>
                  /\ SubSeq(c, 1, k) = old.subEntries.a
                  /\ new.startTime = old.startTime /\ new.endTime = old.endTime
           /\ ( /\ old.name = Work /\ last.name = EmptyName
                /\ NamesOf(old.subEntries.a) = << <<"Part", 1>>, <<"Part", 2>> >> )
              => NamesOf(c) = << <<"Part", 1>>, <<"Part", 2>>, <<"Part", 3>> >>

\* the second of two calls with empty names on the leaf "Work"
C22_Witness ==
    /\ last.op = "startSubEntry"
    /\ last.name = EmptyName
    /\ last.path = <<1>>
    /\ tracker.entries[1].name = Work
    /\ NamesOf(tracker.entries[1].subEntries.a)
           = << <<"Part", 1>>, <<"Part", 2>>, <<"Part", 3>> >>
    /\ tracker.entries[1].subEntries.a[1].startTime = Iso(0)

-----------------------------------------------------------------------------
(* Claims about single operations, checked under SpecEdit *)

\* C23: startNewEntry appends exactly one leaf at the end of tracker.entries
\* with startTime = now and endTime = null, named by the given name or, for
\* an empty name, "Segment {n+1}" with n the top-level count before the call;
\* the existing entries and targetTime are unchanged.
C23_StartNewEntryAppendsOneLeaf ==
    last.op = "startNewEntry" =>
        LET n == Len(last.pre.entries)
            added == tracker.entries[n + 1]
        IN /\ Len(tracker.entries) = n + 1
           /\ SubSeq(tracker.entries, 1, n) = last.pre.entries
           /\ IsLeaf(added) /\ ~TruthySub(added.subEntries)
           /\ added.startTime = Iso(last.at)
           /\ added.endTime = Null
           /\ added.name = IF last.name = EmptyName THEN <<"Segment", n + 1>> ELSE last.name
           /\ DOMAIN tracker = DOMAIN last.pre
           /\ "targetTime" \in DOMAIN tracker => tracker.targetTime = last.pre.targetTime

\* an empty tracker with a target, given "Segment 1"
C23_Witness ==
    /\ last.op = "startNewEntry"
    /\ last.name = EmptyName
    /\ last.pre = [entries |-> <<>>, targetTime |-> TargetOneHourThirty]
    /\ tracker.entries[1].name = <<"Segment", 1>>
    /\ tracker.targetTime = TargetOneHourThirty

\* the running leaves of the subtree of the entry at path `scope`
RunningIn(entries, scope) ==
    { p \in RunningLeaves(entries) :
        Len(p) >= Len(scope) /\ SubSeq(p, 1, Len(scope)) = scope }

\* C24: stopping within a scope (endRunningEntryInSegment on an entry) sets
\* endTime = now on a running leaf of that entry's subtree and changes no
\* other field of any entry of the tracker; when the scope holds no running
\* leaf the tracker is left completely unchanged.
C24_StopEndsOneLeafInScope ==
    last.op = "stop" =>
        IF RunningIn(last.pre.entries, last.path) = {}
        THEN tracker = last.pre
        ELSE /\ \E p \in RunningIn(last.pre.entries, last.path) :
                    tracker.entries =
                        ReplaceAt(last.pre.entries, p,
                                  [EntryAt(last.pre.entries, p) EXCEPT !.endTime = Iso(last.at)])
             /\ DOMAIN tracker = DOMAIN last.pre
             /\ "targetTime" \in DOMAIN tracker => tracker.targetTime = last.pre.targetTime

\* a stop on a top-level container whose running leaf lies two levels down
\* and is not the only running leaf of the scope
C24_Witness ==
    /\ last.op = "stop"
    /\ Len(last.path) = 1
    /\ \E p \in RunningIn(last.pre.entries, last.path) : Len(p) = 3
    /\ Cardinality(RunningIn(last.pre.entries, last.path)) = 2
    /\ Cardinality(RunningLeaves(tracker.entries)) = 1

\* path r is p or an ancestor of p
IsPrefix(r, p) == Len(p) >= Len(r) /\ SubSeq(p, 1, Len(r)) = r

\* C25: removeEntry returns true iff the target object occurs in the tree;
\* it then removes exactly that node and its subtree, every other leaf being
\* still in the tree with its times; when the target occurs nowhere it
\* returns false and leaves the tree unchanged, even though entries of equal
\* value exist.
C25_RemoveExactlyTheTarget ==
    last.op = "removeEntry" =>
        /\ last.found <=> last.path \in PathsOf(last.pre.entries)
        /\ ~last.found => tracker = last.pre
        /\ last.found =>
              \A p \in PathsOf(last.pre.entries) :
                  LET e == EntryAt(last.pre.entries, p)
                      q == ImageAfterRemove(last.pre.entries, last.path, p)
                  IN (IsLeaf(e) /\ ~IsPrefix(last.path, p)) =>
                         /\ q # <<>>
                         /\ EntryAt(tracker.entries, q).startTime = e.startTime
                         /\ EntryAt(tracker.entries, q).endTime = e.endTime

\* C28: removing an entry that contains no running leaf lowers
\* getTotalDuration(tracker.entries) by exactly getDuration of the removed
\* entry: flattening a container down to its single surviving child does not
\* change the duration of what remains, whatever the shape of that child.
C28_RemoveLowersTotalByRemoved ==
    ( /\ last.op = "removeEntry"
      /\ last.found
      /\ RunningIn(last.pre.entries, last.path) = {} )
    => getTotalDuration(tracker.entries, now)
           = getTotalDuration(last.pre.entries, now)
                 - getDuration(EntryAt(last.pre.entries, last.path), now)

-----------------------------------------------------------------------------
(* SpecAutoStop: the plugin's one-second auto-stop interval (main.ts).     *)
(* `now` is the wall clock in minutes since midnight of the first day,     *)
(* `tasks` the closure of the interval (lastCheckedMinute) and the         *)
(* autoStopTimes setting, `docs` the store the scan sweeps, `last` the     *)
(* last tick: what it read from the clock and whether it started a scan.   *)

\* the minutes the clock runs for after the plugin loaded
MaxElapsed == 3
\* the largest number of ticks of the interval
MaxTicks == 4
\* the largest number of edits of the setting
MaxSettingEdits == 1

MinutesPerHour == 60
MinutesPerDay == 1440

\* the clock when the plugin loads: 16:58 and 23:58
ClockStarts == {16 * 60 + 58, 23 * 60 + 58}

\* moment().minutes(): the minute of the hour
minutes(t) == t % MinutesPerHour
\* moment().format("HH:mm"): the zero-padded hour and minute of the day
formatHHmm(t) == <<"HH:mm", (t % MinutesPerDay) \div MinutesPerHour, t % MinutesPerHour>>

\* the autoStopTimes string, as its pieces between ";": each piece is its
\* text with the surrounding whitespace (ws) it carries.  A text is the
\* empty string, a padded time "17:00" or an unpadded one "0:00".
Piece(ws, text) == [ws |-> ws, text |-> text]
NoText == <<"", 0, 0>>
Padded(h, m) == <<"HH:mm", h, m>>
Unpadded(h, m) == <<"H:mm", h, m>>

\* "", " ", ";", "17:00", " 17:00 ;", "16:59;17:00", "17:00;17:01",
\* "00:00", "0:00;7:00"
AutoStopSettings ==
    { <<Piece(FALSE, NoText)>>,
      <<Piece(TRUE, NoText)>>,
      <<Piece(FALSE, NoText), Piece(FALSE, NoText)>>,
      <<Piece(FALSE, Padded(17, 0))>>,
      <<Piece(TRUE, Padded(17, 0)), Piece(FALSE, NoText)>>,
      <<Piece(FALSE, Padded(16, 59)), Piece(FALSE, Padded(17, 0))>>,
      <<Piece(FALSE, Padded(17, 0)), Piece(FALSE, Padded(17, 1))>>,
      <<Piece(FALSE, Padded(0, 0))>>,
      <<Piece(FALSE, Unpadded(0, 0)), Piece(FALSE, Unpadded(7, 0))>> }

\* autoStopTimes.split(";").map((t) => t.trim()).filter((t) => t)
ConfiguredTimes(autoStopTimes) ==
    { autoStopTimes[i].text : i \in { j \in DOMAIN autoStopTimes : autoStopTimes[j].text # NoText } }

\* !autoStopTimes || autoStopTimes.trim() === "": the string is empty or
\* nothing but whitespace
IsBlankSetting(autoStopTimes) ==
    Len(autoStopTimes) = 1 /\ autoStopTimes[1].text = NoText

\* shouldAutoStopNow(autoStopTimes), t being what its own moment() reads
shouldAutoStopNow(autoStopTimes, t) ==
    IF IsBlankSetting(autoStopTimes) THEN FALSE
    ELSE formatHHmm(t) \in ConfiguredTimes(autoStopTimes)

\* the store the scan sweeps
AutoStopDocs == { <<d1, d2>> : d1 \in ScanAllSecond, d2 \in ScanAllSecond }

InitAutoStop ==
    /\ now \in ClockStarts
    /\ tasks \in { [lastCheckedMinute |-> -1, autoStopTimes |-> s, start |-> now, edits |-> 0] :
                     s \in AutoStopSettings }
    /\ docs \in AutoStopDocs
    /\ last = [op |-> "none", n |-> 0, scanned |-> FALSE, at |-> now, scanAt |-> -1,
               prevScanAt |-> -1, autoStopTimes |-> tasks.autoStopTimes, pre |-> docs]
    /\ tracker = EmptyTracker /\ loaded = TRUE /\ views = <<>>

\* one tick of the interval.  The callback reads the clock (now.minutes())
\* and returns if the minute of the hour is lastCheckedMinute; otherwise it
\* stores it and calls shouldAutoStopNow, which reads the clock a second
\* time: `passed` is the minutes that went by between the two reads.  A
\* scan runs stopAllRunnersInFile on every document.
AutoStopTick ==
    \E passed \in {0, 1} :
        LET currentMinute == minutes(now)
            skip == currentMinute = tasks.lastCheckedMinute
            read2 == IF skip THEN now ELSE now + passed
            scan == ~skip /\ shouldAutoStopNow(tasks.autoStopTimes, read2)
            r == [f \in DOMAIN docs |-> stopAllRunnersInFile(docs[f], read2)]
        IN /\ last.n < MaxTicks
           /\ read2 <= tasks.start + MaxElapsed
           /\ skip => passed = 0
           /\ now' = read2
           /\ tasks' = [tasks EXCEPT !.lastCheckedMinute = currentMinute]
           /\ docs' = IF scan
                      THEN [f \in DOMAIN docs |-> IF r[f].modified THEN r[f].content ELSE docs[f]]
                      ELSE docs
           /\ last' = [op |-> "tick", n |-> last.n + 1, scanned |-> scan, at |-> now,
                       scanAt |-> IF scan THEN read2 ELSE last.scanAt,
                       prevScanAt |-> IF scan THEN last.scanAt ELSE last.prevScanAt,
                       autoStopTimes |-> tasks.autoStopTimes, pre |-> docs]
           /\ UNCHANGED <<tracker, loaded, views>>

\* the wall clock reaches the next minute
ClockMinute ==
    /\ now < tasks.start + MaxElapsed
    /\ now' = now + 1
    /\ UNCHANGED <<tracker, last, loaded, docs, views, tasks>>

\* the settings tab: the user edits the auto-stop times
SetAutoStopTimes ==
    \E v \in AutoStopSettings :
        /\ tasks.edits < MaxSettingEdits
        /\ v # tasks.autoStopTimes
        /\ tasks' = [tasks EXCEPT !.autoStopTimes = v, !.edits = @ + 1]
        /\ UNCHANGED <<tracker, now, last, loaded, docs, views>>

NextAutoStop ==
    \/ AutoStopTick
    \/ ClockMinute
    \/ SetAutoStopTimes

SpecAutoStop == InitAutoStop /\ [][NextAutoStop]_vars

\* C26: the auto-stop check starts a scan at most once per wall-clock
\* minute however many ticks fall inside it (a scan never starts in the
\* minute the previous scan started in), only in a minute whose HH:mm is
\* one of the configured times, and never with an empty setting.
C26_ScanOncePerConfiguredMinute ==
    (last.op = "tick" /\ last.scanned) =>
        /\ last.scanAt # last.prevScanAt
        /\ formatHHmm(last.scanAt) \in ConfiguredTimes(last.autoStopTimes)
        /\ ~IsBlankSetting(last.autoStopTimes)

-----------------------------------------------------------------------------
(* SpecRefresh: the one-second refresh interval displayTracker starts for  *)
(* every view it renders.  `views` are the rendered views (the Tracker in   *)
(* memory, whether the element is connected, what the duration cells and   *)
(* the progress bar show), `tasks` the interval of each view, `docs` the   *)
(* store the views were rendered from, `now` the clock.                    *)

\* the largest number of views rendered
MaxViews == 2
\* the largest number of runs of a callback on a disconnected element that
\* is followed
MaxOffTicks == 2

\* displayTracker, the interval callback that never clears its interval
refreshTickNeverClears(view, timer, cells, bar) ==
    [view |-> IF view.connected THEN [view EXCEPT !.cells = cells, !.bar = bar] ELSE view,
     timer |-> IF view.connected THEN timer
               ELSE [timer EXCEPT !.offTicks = @ + 1]]

TTarget == [entries |-> TRunning.entries, targetTime |-> TargetOneHourThirty]
RefreshTrackers == {TStopped, TRunning, TParts, TTarget}

RefreshDocs ==
    { <<Text("intro")>> \o Block(FALSE, <<Json(Stringify(t))>>, FALSE) : t \in RefreshTrackers }

\* the cells of durationCells: one per row, each showing
\* formatDuration(getDuration(entry)) of its entry
DurationCells(t, at) ==
    [p \in PathsOf(t.entries) |-> getDuration(EntryAt(t.entries, p), at)]

\* updateProgressBar: what the bar shows, when the tracker has a target and
\* the parsed target is positive
ProgressBar(t, at) ==
    IF ~("targetTime" \in DOMAIN t /\ t.targetTime # <<>>) THEN <<"none", 0>>
    ELSE IF parseTargetTime(TargetTimeOf(t)) = <<0, 0>> THEN <<"empty", 0>>
    ELSE <<"drawn", getTotalDuration(t.entries, at)>>

\* the callback of the interval: on an element that is no longer connected
\* it clears the interval and returns; otherwise it sets the text of every
\* duration cell and redraws the progress bar
refreshTick(view, timer, cells, bar) ==
    [view |-> IF view.connected THEN [view EXCEPT !.cells = cells, !.bar = bar] ELSE view,
     timer |-> IF view.connected THEN timer
               ELSE [timer EXCEPT !.live = FALSE, !.offTicks = @ + 1]]

InitRefresh ==
    /\ docs \in { <<d1, d2>> : d1 \in RefreshDocs, d2 \in RefreshDocs }
    /\ views = <<>> /\ tasks = <<>>
    /\ now = 2
    /\ last = [op |-> "none", n |-> 0, view |-> 0, pre |-> docs, trackers |-> <<>>]
    /\ tracker = EmptyTracker /\ loaded = TRUE

Trackers == [v \in DOMAIN views |-> views[v].tracker]

\* the code block processor renders the block of file f: displayTracker
\* draws the rows and the bar and starts the interval
RenderView ==
    \E f \in DOMAIN docs :
        LET r == Render(docs, f, 1)
            view == [file |-> f, tracker |-> r.tracker, connected |-> TRUE,
                     cells |-> DurationCells(r.tracker, now),
                     bar |-> ProgressBar(r.tracker, now)]
        IN /\ Len(views) < MaxViews
           /\ views' = Append(views, view)
           /\ tasks' = Append(tasks, [live |-> TRUE, offTicks |-> 0])
           /\ last' = [op |-> "render", n |-> 0, view |-> Len(views) + 1, pre |-> docs,
                       trackers |-> Trackers]
           /\ UNCHANGED <<tracker, now, loaded, docs>>

\* the host takes the element of a view out of the document (the note is
\* closed, the block is rendered anew)
DisconnectView ==
    \E v \in DOMAIN views :
        /\ views[v].connected
        /\ views' = [views EXCEPT ![v].connected = FALSE]
        /\ last' = [op |-> "disconnect", n |-> 0, view |-> v, pre |-> docs,
                    trackers |-> Trackers]
        /\ UNCHANGED <<tracker, now, loaded, docs, tasks>>

\* a second goes by
ClockSecond ==
    /\ now < MaxTime
    /\ now' = now + 1
    /\ last' = [op |-> "clock", n |-> 0, view |-> 0, pre |-> docs, trackers |-> Trackers]
    /\ UNCHANGED <<tracker, loaded, docs, views, tasks>>

\* the interval of view v fires
RefreshTick ==
    \E v \in DOMAIN tasks :
        LET r == refreshTick(views[v], tasks[v],
                             DurationCells(views[v].tracker, now),
                             ProgressBar(views[v].tracker, now))
        IN /\ tasks[v].live
           /\ tasks[v].offTicks < MaxOffTicks
           /\ views' = [views EXCEPT ![v] = r.view]
           /\ tasks' = [tasks EXCEPT ![v] = r.timer]
           /\ last' = [op |-> "refreshTick", n |-> 0, view |-> v, pre |-> docs,
                       trackers |-> Trackers]
           /\ UNCHANGED <<tracker, now, loaded, docs>>

NextRefresh ==
    \/ RenderView
    \/ DisconnectView
    \/ ClockSecond
    \/ RefreshTick

SpecRefresh == InitRefresh /\ [][NextRefresh]_vars

LiveTimers == { v \in DOMAIN tasks : tasks[v].live }
LiveViews == { v \in DOMAIN views : views[v].connected }
\* the intervals of disconnected views whose callback has not run since
AwaitingTick == { v \in DOMAIN tasks : ~views[v].connected /\ tasks[v].offTicks = 0 }

\* C27: a refresh tick leaves the store and every Tracker as they were; the
\* callback of a view runs at most once on a disconnected element and that
\* run clears the interval; so the live intervals are never more than the
\* live views plus the intervals awaiting their next tick.
C27_RefreshTickIsPureAndCancels ==
    /\ last.op = "refreshTick" => (docs = last.pre /\ Trackers = last.trackers)
    /\ \A v \in DOMAIN tasks :
          /\ tasks[v].offTicks <= 1
          /\ tasks[v].offTicks = 1 => ~tasks[v].live
    /\ Cardinality(LiveTimers) <= Cardinality(LiveViews) + Cardinality(AwaitingTick)

\* two views were rendered, one was disconnected and its next tick cleared
\* its interval, the other one is live and was refreshed at a later second
C27_Witness ==
    /\ last.op = "refreshTick"
    /\ Len(views) = 2
    /\ \E v \in DOMAIN views : ~views[v].connected /\ ~tasks[v].live /\ tasks[v].offTicks = 1
    /\ views[last.view].connected /\ tasks[last.view].live
    /\ isRunning(views[last.view].tracker)
    /\ views[last.view].cells = DurationCells(views[last.view].tracker, now)
    /\ now > 2

=============================================================================
